---- MODULE Spec2Model ----
(***************************************************************************)
(* Collaboration-mode synchronisation core of luminasage.                  *)
(*                                                                         *)
(*   SpecMode  the mode IPC handlers over the local SQLite tables          *)
(*             (src/src/ipc/handlers/mode_handlers.ts)                     *)
(*   SpecModeConc  switchMode calls of which one is entered while another  *)
(*             is in progress                                              *)
(*   SpecDist  two application instances: orchestrator, event bus and      *)
(*             store client (src/src/distributed/*.ts)                     *)
(*   SpecDispatch  the three message dispatchers of one instance: bus      *)
(*             client, transport server and transport client               *)
(*             (redis_event_bus.ts, src/unnamed/part_003)                  *)
(*   SpecCycle  initialize and shutdown cycles of one instance that        *)
(*             receives the events of another process                      *)
(*   SpecRelay  the instances with the orchestrator's own handlers only,   *)
(*             with the event loop's fairness                              *)
(*   SpecLife  initialize, shutdown and getStatus of the orchestrator of   *)
(*             one instance, one subsystem per step                        *)
(*   SpecHub   the transport server of one instance: sockets, registry,    *)
(*             heartbeat, state-request handler, stop                      *)
(*   SpecClient  the transport client: connect, reconnect with backoff,    *)
(*             disconnect (src/unnamed/part_003)                           *)
(*   SpecCtx   the writes of the store's context records                   *)
(*   SpecStore the store client: initialize, index creation, status reads, *)
(*             close (distributed_memory_manager.ts)                       *)
(*   SpecAnnotate  annotateResponseSource and extractResponseSource on     *)
(*             character sequences (src/unnamed/part_001)                  *)
(*   SpecCoordinator  executeTool and the execution log of the tool        *)
(*             coordinator (src/src/ipc/utils/multi_mcp_coordinator.ts)    *)
(*                                                                         *)
(* Calls of the orchestrator (initialize, shutdown, the publish methods)   *)
(* on one instance do not overlap; each dispatcher dispatches one message  *)
(* at a time.                                                              *)
(* Every await on the database, the bus or the store is a step of its own  *)
(* and may fail; failures are counted by the variable faults.              *)
(***************************************************************************)
EXTENDS Integers, Sequences, FiniteSets, TLC

Null == "null"

(* ------------------------------ bounds --------------------------------- *)
MaxCalls == 3
MaxFaults == 1
MaxClock == 2

(* --------------------------- mode handlers ----------------------------- *)
ModeOrder == <<"inspired", "didactic", "parallel">>
Modes == {"inspired", "didactic", "parallel"}
Configs == {"cfgA", "cfgB"}
(* the limit argument of mode:get-transition-history, 20 by default *)
Limits == {1, 20}
Procs == {1, 2}
SeqProcs == {1}

VARIABLES
  modeRows,     \* table ai_collaboration_modes, in rowid order
  capRows,      \* table mode_capabilities (mode is unique): modes with a row
  history,      \* table mode_transition_history, in rowid order
  now,          \* Date.now()
  faults,       \* number of database / bus / store operations that failed
  ncalls,       \* number of handler invocations so far
  call          \* per invocation: position and locals of the running handler

modeVars == <<modeRows, capRows, history, now, faults, ncalls, call>>

(* ------------------------- distributed memory -------------------------- *)
MaxInits == 2
MaxPublish == 1
MaxOn == 2
MaxDistFaults == 1
MaxDeliver == 2
MaxWsOn == 2
MaxWsMessages == 2
MaxWsThrows == 1
MaxLifeCalls == 3
MaxHubMessages == 2
MaxHubClock == 4
MaxHubStops == 2
MaxCliConnects == 2
MaxCliOpens == 1
MaxCliDisconnects == 1
MaxCtxWrites == 3
MaxStoCalls == 3
MaxStoFaults == 1
MaxContentLen == 2
MaxNameLen == 3
MaxCoCalls == 102
MaxCoFaults == 1
MaxOverlaps == 1

Undefined == "undefined"
Inst == {"A", "B"}
(* RedisEventBus.instanceId = uuidv4(), one per process *)
InstanceId == [i \in Inst |-> IF i = "A" THEN "uuid-A" ELSE "uuid-B"]
(* the instances whose renderer publishes local changes *)
Publishers == {"A"}
Users == {"u1"}
Keys == {"k1", "k2"}
Data == {"d1"}
Versions == {1}
EventTypes == {"mode:changed", "context:updated"}
AllConfigs ==
  [enableMongoDB : BOOLEAN, enableRedis : BOOLEAN, enableWebSocket : BOOLEAN,
   mongodb : {TRUE}, redis : {TRUE}, websocket : {TRUE}]
(* mongodb, redis and websocket are optional members of the config *)
LifeConfigs ==
  [enableMongoDB : BOOLEAN, enableRedis : BOOLEAN, enableWebSocket : BOOLEAN,
   mongodb : BOOLEAN, redis : BOOLEAN, websocket : BOOLEAN]
(* the configurations the instances are started with *)
DistConfigs ==
  {c \in AllConfigs : c.enableRedis \/ (~c.enableMongoDB /\ ~c.enableWebSocket)}

VARIABLES
  mgr,            \* DistributedMemoryManager: initialized, config, wsServer
  bus,            \* RedisEventBus: publisher, subscriber, handlers
  mongoCli,       \* MongoDBClient: client, db
  modeStateDocs,  \* collection mode_state, unique on (userId, instanceId)
  ctxDocs,        \* collection distributed_context, unique on (userId, contextKey)
  transitionDocs, \* collection mode_transitions
  inbox,          \* messages the bus has delivered to each subscriber
  disp,           \* the running handleRedisMessage of each instance
  pcall,          \* the running publishModeChange / publishContextUpdate
  pubLog,         \* events accepted by the bus, by eventId
  received,       \* eventIds whose dispatch has ended, per instance
  dfaults,        \* failed bus / store operations and throwing handlers
  nInits,         \* initialize calls so far
  nPublish        \* publish calls so far

distVars == <<mgr, bus, mongoCli, modeStateDocs, ctxDocs, transitionDocs,
              inbox, disp, pcall, pubLog, received, dfaults, nInits, nPublish>>

(* --------------------------- live transport ---------------------------- *)
(* one WebSocketSyncServer and one WebSocketSyncClient *)
WsEndpoints == {"server", "client"}
(* message types that reach the handler loop *)
WsTypes == {"mode-update"}

VARIABLES
  wsOpen,       \* server: this.wss is set; client: the socket is open
  wsHandlers,   \* this.handlers of each endpoint, per message type
  wsDisp,       \* the running handleMessage of each endpoint
  nWsMsgs,      \* messages handed to handleMessage so far, per endpoint
  wsThrows      \* handler invocations that threw, per endpoint

wsVars == <<wsOpen, wsHandlers, wsDisp, nWsMsgs, wsThrows>>

(* ----------------- orchestrator lifecycle, transport hub ---------------- *)
VARIABLES
  lcall,        \* the running initialize / shutdown / getStatus of instance A
  nLife,        \* lifecycle calls so far
  srv,          \* the orchestrator's WebSocketSyncServer: wss, pingInterval,
                \* number of state-request handlers
  conns,        \* the sockets the server accepted and what each was sent
  clients,      \* WebSocketSyncServer.clients, the registry
  hubNow,       \* Date.now() of the server, in heartbeat periods of 30 s
  hubTicks,     \* the last heartbeat pass that ran
  hstop,        \* the running or last WebSocketSyncServer.stop()
  nHubMsgs      \* messages of clients handled so far

lifeVars == <<lcall, nLife>>
hubRest == <<conns, clients, hubNow, hubTicks, hstop, nHubMsgs>>
hubVars == <<srv, hubRest>>

(* --------------------------- transport client ------------------------- *)
VARIABLES
  cli,          \* the WebSocketSyncClient: ws, url, reconnectAttempts,
                \* reconnectTimeout, and the timers and sockets it left behind
  cliLog        \* what the client was asked to do and what it scheduled

(* ------------------------- context records ---------------------------- *)
VARIABLES
  ctxLast,      \* per (userId, contextKey): the write the store applied last
  nCtx          \* context writes so far

(* ------------------------- the store client --------------------------- *)
VARIABLES
  sto,          \* the MongoDBClient: client, db, isConnecting
  scall,        \* the initialize call of the store client in progress
  serverIndexes,\* how many of the required indexes exist on the server
  stoSeen,      \* the last status read: isConnected, healthCheck
  stoRet,       \* the last return of initialize: how, and isConnected then
  nSto,         \* initialize and close calls so far
  sfaults       \* driver operations that were rejected so far

(* ------------------------- response annotation ------------------------ *)
VARIABLES
  ann           \* one annotateResponseSource / extractResponseSource run

(* ------------------------- tool coordinator --------------------------- *)
VARIABLES
  executionHistory, \* the execution log of the MultiMcpCoordinator
  cocall,       \* the executeTool call in progress
  coEnded,      \* the inputs of the executeTool calls that ended, in order,
                \* each with how it ended
  cofaults      \* tool calls and database reads that were rejected so far

(* ------------------------- overlapping mode calls --------------------- *)
VARIABLES
  noverlaps     \* mode:switch-mode calls begun while another call was running

cliVars == <<cli, cliLog>>
ctxVars == <<ctxLast, nCtx>>
stoVars == <<sto, scall, serverIndexes, stoSeen, stoRet, nSto, sfaults>>
annVars == <<ann>>
coVars == <<executionHistory, cocall, coEnded, cofaults>>
concVars == <<noverlaps>>
auxVars == <<stoVars, annVars, coVars, concVars>>
extVars == <<cliVars, ctxVars, auxVars>>
coreVars == <<modeVars, distVars, wsVars, lifeVars, hubVars>>
(* everything but the variables of one part *)
notCli == <<coreVars, ctxVars, auxVars>>
notSto == <<coreVars, cliVars, ctxVars, annVars, coVars, concVars>>
notAnn == <<coreVars, cliVars, ctxVars, stoVars, coVars, concVars>>
notCo == <<coreVars, cliVars, ctxVars, stoVars, annVars, concVars>>
notCtx == <<modeVars, wsVars, lifeVars, hubVars, cliVars, auxVars,
            mgr, bus, mongoCli, modeStateDocs, transitionDocs, inbox, disp,
            pcall, pubLog, received, dfaults, nInits, nPublish>>

vars == <<coreVars, extVars>>

(* ensureModesExist inserts "inspired" as the active row *)
DefaultActiveMut(mode) == TRUE
DefaultActive(mode) == mode = "inspired"

getDefaultCapabilities(mode) ==
  CASE mode = "inspired" ->
         [mode |-> mode, localAI |-> TRUE, externalAI |-> FALSE,
          multiChannel |-> FALSE, offlineCapable |-> TRUE, realTimeSync |-> FALSE]
    [] mode = "didactic" ->
         [mode |-> mode, localAI |-> FALSE, externalAI |-> TRUE,
          multiChannel |-> FALSE, offlineCapable |-> FALSE, realTimeSync |-> TRUE]
    [] OTHER ->
         [mode |-> mode, localAI |-> TRUE, externalAI |-> TRUE,
          multiChannel |-> TRUE, offlineCapable |-> FALSE, realTimeSync |-> TRUE]

(* db.select().from(aiCollaborationModes).where(eq(col, v)) *)
RowsOfMode(rows, m) == SelectSeq(rows, LAMBDA r : r.mode = m)
ActiveRows(rows) == SelectSeq(rows, LAMBDA r : r.isActive)
ActiveModes == {modeRows[k].mode : k \in {j \in DOMAIN modeRows : modeRows[j].isActive}}
NumActive == Cardinality({j \in DOMAIN modeRows : modeRows[j].isActive})

(* getModeWithCapabilities: first row of the mode, capabilities from the    *)
(* mode_capabilities row (always written with the defaults) or the defaults *)
(* The result is <<>> for null and <<status>> otherwise.                    *)
getModeWithCapabilities(rows, mode) ==
  LET modeRecords == RowsOfMode(rows, mode) IN
  IF Len(modeRecords) = 0 THEN <<>>
  ELSE <<[mode |-> modeRecords[1].mode,
          isActive |-> modeRecords[1].isActive,
          configuration |-> modeRecords[1].configuration,
          capabilities |-> getDefaultCapabilities(mode)]>>

(* db.update(aiCollaborationModes).set({isActive: v}).where(eq(mode, m)) *)
SetActiveMut(rows, m, v) ==
  [k \in DOMAIN rows |->
     IF rows[k].mode = m THEN [rows[k] EXCEPT !.isActive = TRUE] ELSE rows[k]]
SetActive(rows, m, v) ==
  [k \in DOMAIN rows |->
     IF rows[k].mode = m THEN [rows[k] EXCEPT !.isActive = v] ELSE rows[k]]

(* db.update(aiCollaborationModes).set({configuration, updatedAt})         *)
(*   .where(eq(aiCollaborationModes.mode, mode))                           *)
SetConfigurationMut(rows, m, c) ==
  [k \in DOMAIN rows |-> [rows[k] EXCEPT !.configuration = c]]
SetConfiguration(rows, m, c) ==
  [k \in DOMAIN rows |->
     IF rows[k].mode = m THEN [rows[k] EXCEPT !.configuration = c] ELSE rows[k]]

(* transitionDuration = Date.now() - startTime *)
Elapsed(t, startTime) == t - startTime

IdleCall ==
  [pc |-> "idle", op |-> "none", target |-> Null, cfg |-> Null, i |-> 1,
   startTime |-> 0, currentMode |-> Null, transitionDuration |-> 0,
   result |-> [kind |-> "none"], preActive |-> {}, readDone |-> FALSE,
   preHistory |-> <<>>, preRows |-> <<>>, fault |-> FALSE, limit |-> 20]

ModeInit ==
  /\ modeRows = <<>>
  /\ capRows = {}
  /\ history = <<>>
  /\ now = 0
  /\ faults = 0
  /\ ncalls = 0
  /\ call = [p \in Procs |-> IdleCall]

(* A database operation either succeeds or rejects *)
CanFail == faults < MaxFaults

Tick ==
  /\ now < MaxClock
  /\ now' = now + 1
  /\ UNCHANGED <<modeRows, capRows, history, faults, ncalls, call>>
  /\ UNCHANGED <<distVars, wsVars, lifeVars, hubVars, extVars>>

(* handler entry: const startTime = Date.now(); await ensureModesExist() *)
Begin(p, op, target, cfg) ==
  /\ call[p].pc = "idle"
  /\ ncalls < MaxCalls
  /\ ncalls' = ncalls + 1
  /\ call' = [call EXCEPT ![p] =
       [IdleCall EXCEPT !.pc = "ensureSelect", !.op = op, !.target = target,
                        !.cfg = cfg, !.startTime = now,
                        !.preHistory = history, !.preRows = modeRows]]
  /\ UNCHANGED <<modeRows, capRows, history, now, faults>>
  /\ UNCHANGED <<distVars, wsVars, lifeVars, hubVars, extVars>>

BeginGetState(p) ==
  /\ \A q \in Procs : call[q].pc = "idle"
  /\ Begin(p, "getState", Null, Null)

BeginSwitchMode(p) ==
  /\ \A q \in Procs : call[q].pc = "idle"
  /\ \E t \in Modes : Begin(p, "switchMode", t, Null)

BeginUpdateConfiguration(p) ==
  /\ \A q \in Procs : call[q].pc = "idle"
  /\ \E m \in Modes, c \in Configs : Begin(p, "updateConfiguration", m, c)

BeginGetModeStatus(p) ==
  /\ \A q \in Procs : call[q].pc = "idle"
  /\ \E m \in Modes : Begin(p, "getModeStatus", m, Null)

(* mode:get-transition-history does not call ensureModesExist *)
BeginGetTransitionHistory(p) ==
  /\ \A q \in Procs : call[q].pc = "idle"
  /\ call[p].pc = "idle"
  /\ ncalls < MaxCalls
  /\ ncalls' = ncalls + 1
  /\ \E limit \in Limits :
       call' = [call EXCEPT ![p] =
         [IdleCall EXCEPT !.pc = "gthRead", !.op = "getTransitionHistory",
                          !.limit = limit, !.startTime = now,
                          !.preHistory = history, !.preRows = modeRows]]
  /\ UNCHANGED <<modeRows, capRows, history, now, faults>>
  /\ UNCHANGED <<distVars, wsVars, lifeVars, hubVars, extVars>>

(* where the handler continues after ensureModesExist *)
BodyPc(op) ==
  CASE op = "switchMode" -> "readCurrent"
    [] op = "updateConfiguration" -> "updateCfg"
    [] op = "getModeStatus" -> "gmsRead"
    [] OTHER -> "gsModes"

(* an error thrown by ensureModesExist is outside every try block *)
Raise(p) == call' = [call EXCEPT ![p].pc = "raised", ![p].fault = TRUE]

AfterEnsureStepMut(p, k) ==
  IF k >= Len(ModeOrder)
  THEN call' = [call EXCEPT ![p].pc = BodyPc(call[p].op), ![p].i = 1]
  ELSE call' = [call EXCEPT ![p].pc = "ensureSelect", ![p].i = k]
AfterEnsureStep(p, k) ==
  IF k > Len(ModeOrder)
  THEN call' = [call EXCEPT ![p].pc = BodyPc(call[p].op), ![p].i = 1]
  ELSE call' = [call EXCEPT ![p].pc = "ensureSelect", ![p].i = k]

(* ensureModesExist: const existing = await db.select()...where(mode) *)
EnsureSelect(p) ==
  /\ call[p].pc = "ensureSelect"
  /\ \/ /\ Len(RowsOfMode(modeRows, ModeOrder[call[p].i])) = 0
        /\ call' = [call EXCEPT ![p].pc = "ensureInsertMode"]
        /\ UNCHANGED faults
     \/ /\ Len(RowsOfMode(modeRows, ModeOrder[call[p].i])) # 0
        /\ AfterEnsureStep(p, call[p].i + 1)
        /\ UNCHANGED faults
     \/ /\ CanFail
        /\ faults' = faults + 1
        /\ Raise(p)
  /\ UNCHANGED <<modeRows, capRows, history, now, ncalls>>
  /\ UNCHANGED <<distVars, wsVars, lifeVars, hubVars, extVars>>

(* ensureModesExist: await db.insert(aiCollaborationModes).values(...) *)
EnsureInsertMode(p) ==
  /\ call[p].pc = "ensureInsertMode"
  /\ \/ /\ modeRows' = Append(modeRows,
               [mode |-> ModeOrder[call[p].i],
                isActive |-> DefaultActive(ModeOrder[call[p].i]),
                configuration |-> Null])
        /\ call' = [call EXCEPT ![p].pc = "ensureInsertCap"]
        /\ UNCHANGED faults
     \/ /\ CanFail
        /\ faults' = faults + 1
        /\ Raise(p)
        /\ UNCHANGED modeRows
  /\ UNCHANGED <<capRows, history, now, ncalls>>
  /\ UNCHANGED <<distVars, wsVars, lifeVars, hubVars, extVars>>

(* ensureModesExist: await db.insert(modeCapabilities).values(...);        *)
(* mode_capabilities.mode is unique, a second row for the mode is rejected *)
EnsureInsertCap(p) ==
  /\ call[p].pc = "ensureInsertCap"
  /\ \/ /\ IF ModeOrder[call[p].i] \notin capRows
           THEN /\ capRows' = capRows \cup {ModeOrder[call[p].i]}
                /\ AfterEnsureStep(p, call[p].i + 1)
           ELSE /\ Raise(p)
                /\ UNCHANGED capRows
        /\ UNCHANGED faults
     \/ /\ CanFail
        /\ faults' = faults + 1
        /\ Raise(p)
        /\ UNCHANGED capRows
  /\ UNCHANGED <<modeRows, history, now, ncalls>>
  /\ UNCHANGED <<distVars, wsVars, lifeVars, hubVars, extVars>>

(* ----------------------------- mode:switch-mode ------------------------ *)

(* an error thrown inside the try block of mode:switch-mode *)
Throw(p) == call' = [call EXCEPT ![p].pc = "catch"]

(* const currentModes = await db.select()...where(isActive = true);        *)
(* currentMode = currentModes[0]?.mode ?? null; throw if it is the target  *)
ReadCurrent(p) ==
  /\ call[p].pc = "readCurrent"
  /\ \/ /\ LET currentModes == ActiveRows(modeRows)
               currentMode == IF Len(currentModes) > 0
                              THEN currentModes[1].mode ELSE Null
           IN call' = [call EXCEPT
                 ![p].currentMode = currentMode,
                 ![p].preActive = ActiveModes,
                 ![p].readDone = TRUE,
                 ![p].pc = IF currentMode = call[p].target THEN "catch"
                           ELSE IF currentMode # Null THEN "deactivate"
                           ELSE "activate"]
        /\ UNCHANGED faults
     \/ /\ CanFail
        /\ faults' = faults + 1
        /\ Throw(p)
  /\ UNCHANGED <<modeRows, capRows, history, now, ncalls>>
  /\ UNCHANGED <<distVars, wsVars, lifeVars, hubVars, extVars>>

(* await db.update(...).set({isActive: false}).where(mode = currentMode) *)
Deactivate(p) ==
  /\ call[p].pc = "deactivate"
  /\ \/ /\ modeRows' = SetActive(modeRows, call[p].currentMode, FALSE)
        /\ call' = [call EXCEPT ![p].pc = "activate"]
        /\ UNCHANGED faults
     \/ /\ CanFail
        /\ faults' = faults + 1
        /\ Throw(p)
        /\ UNCHANGED modeRows
  /\ UNCHANGED <<capRows, history, now, ncalls>>
  /\ UNCHANGED <<distVars, wsVars, lifeVars, hubVars, extVars>>

(* await db.update(...).set({isActive: true, ...}).where(mode = target);   *)
(* const transitionDuration = Date.now() - startTime                       *)
Activate(p) ==
  /\ call[p].pc = "activate"
  /\ \/ /\ modeRows' = SetActive(modeRows, call[p].target, TRUE)
        /\ call' = [call EXCEPT
              ![p].pc = "insertHistory",
              ![p].transitionDuration = Elapsed(now, call[p].startTime)]
        /\ UNCHANGED faults
     \/ /\ CanFail
        /\ faults' = faults + 1
        /\ Throw(p)
        /\ UNCHANGED modeRows
  /\ UNCHANGED <<capRows, history, now, ncalls>>
  /\ UNCHANGED <<distVars, wsVars, lifeVars, hubVars, extVars>>

SuccessRecordMut(c) ==
  [fromMode |-> c.target, toMode |-> c.currentMode,
   transitionDuration |-> c.transitionDuration, success |-> TRUE]
SuccessRecord(c) ==
  [fromMode |-> c.currentMode, toMode |-> c.target,
   transitionDuration |-> c.transitionDuration, success |-> TRUE]

(* the failed record of the catch block always carries fromMode: null *)
FailureRecordMut(c, t) ==
  [fromMode |-> c.currentMode, toMode |-> c.target,
   transitionDuration |-> Elapsed(t, c.startTime), success |-> FALSE]
FailureRecord(c, t) ==
  [fromMode |-> Null, toMode |-> c.target,
   transitionDuration |-> Elapsed(t, c.startTime), success |-> FALSE]

(* await db.insert(modeTransitionHistory).values({... success: true}) *)
InsertHistory(p) ==
  /\ call[p].pc = "insertHistory"
  /\ \/ /\ history' = Append(history, SuccessRecord(call[p]))
        /\ call' = [call EXCEPT ![p].pc = "readBack"]
        /\ UNCHANGED faults
     \/ /\ CanFail
        /\ faults' = faults + 1
        /\ Throw(p)
        /\ UNCHANGED history
  /\ UNCHANGED <<modeRows, capRows, now, ncalls>>
  /\ UNCHANGED <<distVars, wsVars, lifeVars, hubVars, extVars>>

(* const newModeStatus = await getModeWithCapabilities(target);            *)
(* throw if null, else return {mode, transition, preservedContext}         *)
ReadBack(p) ==
  /\ call[p].pc = "readBack"
  /\ \/ /\ LET newModeStatus == getModeWithCapabilities(modeRows, call[p].target)
           IN IF newModeStatus = <<>>
              THEN Throw(p)
              ELSE call' = [call EXCEPT
                     ![p].pc = "returned",
                     ![p].result = [kind |-> "SwitchModeResult",
                                    mode |-> newModeStatus[1],
                                    transition |-> SuccessRecord(call[p])]]
        /\ UNCHANGED faults
     \/ /\ CanFail
        /\ faults' = faults + 1
        /\ Throw(p)
  /\ UNCHANGED <<modeRows, capRows, history, now, ncalls>>
  /\ UNCHANGED <<distVars, wsVars, lifeVars, hubVars, extVars>>

(* catch: await db.insert(modeTransitionHistory).values({fromMode: null,   *)
(* ... success: false}); throw new Error(...)                              *)
Catch(p) ==
  /\ call[p].pc = "catch"
  /\ \/ /\ history' = Append(history, FailureRecord(call[p], now))
        /\ call' = [call EXCEPT ![p].pc = "raised"]
        /\ UNCHANGED faults
     \/ /\ CanFail
        /\ faults' = faults + 1
        /\ Raise(p)
        /\ UNCHANGED history
  /\ UNCHANGED <<modeRows, capRows, now, ncalls>>
  /\ UNCHANGED <<distVars, wsVars, lifeVars, hubVars, extVars>>

(* ------------------------- mode:update-configuration ------------------- *)

(* await db.update(...).set({configuration, updatedAt}).where(mode = m) *)
UpdateCfg(p) ==
  /\ call[p].pc = "updateCfg"
  /\ \/ /\ modeRows' = SetConfiguration(modeRows, call[p].target, call[p].cfg)
        /\ call' = [call EXCEPT ![p].pc = "updateReadBack"]
        /\ UNCHANGED faults
     \/ /\ CanFail
        /\ faults' = faults + 1
        /\ Raise(p)
        /\ UNCHANGED modeRows
  /\ UNCHANGED <<capRows, history, now, ncalls>>
  /\ UNCHANGED <<distVars, wsVars, lifeVars, hubVars, extVars>>

(* const updated = await getModeWithCapabilities(mode); throw if null *)
UpdateReadBack(p) ==
  /\ call[p].pc = "updateReadBack"
  /\ \/ /\ LET updated == getModeWithCapabilities(modeRows, call[p].target)
           IN IF updated = <<>>
              THEN call' = [call EXCEPT ![p].pc = "raised"]
              ELSE call' = [call EXCEPT ![p].pc = "returned",
                                        ![p].result = [kind |-> "ModeStatus",
                                                       mode |-> updated[1]]]
        /\ UNCHANGED faults
     \/ /\ CanFail
        /\ faults' = faults + 1
        /\ Raise(p)
  /\ UNCHANGED <<modeRows, capRows, history, now, ncalls>>
  /\ UNCHANGED <<distVars, wsVars, lifeVars, hubVars, extVars>>

(* ------------------------------ mode:get-state ------------------------- *)

(* allModes = await db.select().from(aiCollaborationModes); one            *)
(* getModeWithCapabilities per row; currentMode = first active or inspired *)
StatusesOf(rows) ==
  [k \in DOMAIN rows |-> getModeWithCapabilities(rows, rows[k].mode)[1]]

GsModes(p) ==
  /\ call[p].pc = "gsModes"
  /\ \/ /\ LET availableModes == StatusesOf(modeRows)
               activeModes == SelectSeq(availableModes, LAMBDA m : m.isActive)
               currentMode == IF Len(activeModes) > 0
                              THEN activeModes[1].mode ELSE "inspired"
           IN call' = [call EXCEPT ![p].pc = "gsHistory",
                                   ![p].currentMode = currentMode,
                                   ![p].preActive = ActiveModes,
                                   ![p].readDone = TRUE]
        /\ UNCHANGED faults
     \/ /\ CanFail
        /\ faults' = faults + 1
        /\ Raise(p)
  /\ UNCHANGED <<modeRows, capRows, history, now, ncalls>>
  /\ UNCHANGED <<distVars, wsVars, lifeVars, hubVars, extVars>>

(* historyRecords = newest first; previousMode = modeHistory[0]?.fromMode *)
Reverse(s) == [k \in 1..Len(s) |-> s[Len(s) + 1 - k]]

GsHistory(p) ==
  /\ call[p].pc = "gsHistory"
  /\ \/ /\ LET modeHistory == Reverse(history)
               previousMode == IF Len(modeHistory) > 0
                                  /\ modeHistory[1].fromMode # Null
                               THEN modeHistory[1].fromMode ELSE Null
           IN call' = [call EXCEPT
                 ![p].pc = "returned",
                 ![p].result = [kind |-> "ModeStateSnapshot",
                                currentMode |-> call[p].currentMode,
                                previousMode |-> previousMode,
                                modeHistory |-> modeHistory]]
        /\ UNCHANGED faults
     \/ /\ CanFail
        /\ faults' = faults + 1
        /\ Raise(p)
  /\ UNCHANGED <<modeRows, capRows, history, now, ncalls>>
  /\ UNCHANGED <<distVars, wsVars, lifeVars, hubVars, extVars>>

(* ---------------------------- mode:get-mode-status --------------------- *)

(* return await getModeWithCapabilities(mode) *)
GmsRead(p) ==
  /\ call[p].pc = "gmsRead"
  /\ \/ /\ call' = [call EXCEPT
                ![p].pc = "returned",
                ![p].result = [kind |-> "ModeStatusOrNull",
                               status |-> getModeWithCapabilities(modeRows, call[p].target)]]
        /\ UNCHANGED faults
     \/ /\ CanFail
        /\ faults' = faults + 1
        /\ Raise(p)
  /\ UNCHANGED <<modeRows, capRows, history, now, ncalls>>
  /\ UNCHANGED <<distVars, wsVars, lifeVars, hubVars, extVars>>

(* ------------------------ mode:get-transition-history ------------------ *)

(* select ... orderBy(desc(createdAt)).limit(limit) *)
Take(s, n) == SubSeq(s, 1, IF n < Len(s) THEN n ELSE Len(s))

GthRead(p) ==
  /\ call[p].pc = "gthRead"
  /\ \/ /\ call' = [call EXCEPT
                ![p].pc = "returned",
                ![p].result = [kind |-> "ModeTransitionRecords",
                               records |-> Take(Reverse(history), call[p].limit)]]
        /\ UNCHANGED faults
     \/ /\ CanFail
        /\ faults' = faults + 1
        /\ Raise(p)
  /\ UNCHANGED <<modeRows, capRows, history, now, ncalls>>
  /\ UNCHANGED <<distVars, wsVars, lifeVars, hubVars, extVars>>

(* the IPC reply (value or error) is delivered to the renderer *)
Finish(p) ==
  /\ call[p].pc \in {"returned", "raised"}
  /\ call' = [call EXCEPT ![p] = IdleCall]
  /\ UNCHANGED <<modeRows, capRows, history, now, faults, ncalls>>
  /\ UNCHANGED <<distVars, wsVars, lifeVars, hubVars, extVars>>

ModeNext ==
  \/ Tick
  \/ \E p \in SeqProcs : BeginGetState(p)
  \/ \E p \in SeqProcs : BeginSwitchMode(p)
  \/ \E p \in SeqProcs : BeginUpdateConfiguration(p)
  \/ \E p \in SeqProcs : BeginGetModeStatus(p)
  \/ \E p \in SeqProcs : BeginGetTransitionHistory(p)
  \/ \E p \in Procs : EnsureSelect(p)
  \/ \E p \in Procs : EnsureInsertMode(p)
  \/ \E p \in Procs : EnsureInsertCap(p)
  \/ \E p \in Procs : ReadCurrent(p)
  \/ \E p \in Procs : Deactivate(p)
  \/ \E p \in Procs : Activate(p)
  \/ \E p \in Procs : InsertHistory(p)
  \/ \E p \in Procs : ReadBack(p)
  \/ \E p \in Procs : Catch(p)
  \/ \E p \in Procs : UpdateCfg(p)
  \/ \E p \in Procs : UpdateReadBack(p)
  \/ \E p \in Procs : GsModes(p)
  \/ \E p \in Procs : GsHistory(p)
  \/ \E p \in Procs : GmsRead(p)
  \/ \E p \in Procs : GthRead(p)
  \/ \E p \in Procs : Finish(p)

(* ======================= distributed memory ============================ *)

(* no orchestrator call of the instance is awaiting anything *)
NoCallRunning(i) == pcall[i].pc \in {"idle", "returned", "raised"}

IdlePCall ==
  [pc |-> "idle", kind |-> "none", userId |-> Null, fromMode |-> Null,
   toMode |-> Null, configuration |-> Undefined, contextKey |-> Null,
   data |-> Null, version |-> 0, sinks |-> <<>>,
   busUp |-> FALSE, mongoUp |-> FALSE, wsUp |-> FALSE]

IdleDisp ==
  [phase |-> "idle", event |-> <<>>, idx |-> 1, inv |-> <<>>, count |-> 0]

DistInit ==
  /\ mgr = [i \in Inst |-> [initialized |-> FALSE, config |-> <<>>, wsServer |-> FALSE]]
  /\ bus = [i \in Inst |->
       [publisher |-> FALSE, subscriber |-> FALSE, open |-> FALSE,
        subscribed |-> FALSE, nextGen |-> 1,
        handlers |-> [t \in EventTypes |-> <<>>]]]
  /\ mongoCli = [i \in Inst |-> [client |-> FALSE, db |-> FALSE]]
  /\ modeStateDocs = [k \in Users \X {InstanceId[i] : i \in Inst} |-> <<>>]
  /\ ctxDocs = [k \in Users \X Keys |-> <<>>]
  /\ transitionDocs = <<>>
  /\ inbox = [i \in Inst |-> <<>>]
  /\ disp = [i \in Inst |-> IdleDisp]
  /\ pcall = [i \in Inst |-> IdlePCall]
  /\ pubLog = <<>>
  /\ received = [i \in Inst |-> <<>>]
  /\ dfaults = 0
  /\ nInits = 0
  /\ nPublish = 0


CanFailDist == dfaults < MaxDistFaults

(* RedisEventBus.isConnected / MongoDBClient.isConnected *)
BusIsConnected(i) == bus[i].publisher /\ bus[i].subscriber /\ bus[i].open
MongoIsConnected(i) == mongoCli[i].client /\ mongoCli[i].db

(* setupRedisEventHandlers: redisEventBus.on("mode:changed", <closure>),   *)
(* redisEventBus.on("context:updated", <closure>); every call creates two  *)
(* new closures, which the handler Sets keep in insertion order            *)
setupRedisEventHandlers(b) ==
  [b EXCEPT
     !.handlers = [t \in EventTypes |->
                     Append(b.handlers[t], [kind |-> "mgr", id |-> b.nextGen])],
     !.nextGen = b.nextGen + 1]

(* RedisEventBus.on with handlers of the application: every function value *)
(* is its own entry of the Set, kept in insertion order (adding a function  *)
(* that is already in the Set changes nothing)                              *)
UserHandler(n) == [kind |-> "user", id |-> n]

InSeq(x, s) == \E k \in DOMAIN s : s[k] = x

NumUserOn(i, t) ==
  Cardinality({k \in DOMAIN bus[i].handlers[t] : bus[i].handlers[t][k].kind = "user"})

RECURSIVE SumOver(_, _)
SumOver(S, f) ==
  IF S = {} THEN 0
  ELSE LET x == CHOOSE y \in S : TRUE IN f[x] + SumOver(S \ {x}, f)

NumUserHandlers ==
  SumOver(Inst \X EventTypes, [x \in Inst \X EventTypes |-> NumUserOn(x[1], x[2])])

On(i, t) ==
  /\ NumUserHandlers < MaxOn
  /\ bus' = [bus EXCEPT ![i].handlers[t] = Append(@, UserHandler(NumUserOn(i, t) + 1))]
  /\ UNCHANGED <<mgr, mongoCli, modeStateDocs, ctxDocs, transitionDocs,
                 inbox, disp, pcall, pubLog, received, dfaults, nInits, nPublish>>
  /\ UNCHANGED <<modeVars, wsVars, lifeVars, hubVars, extVars>>

(* DistributedMemoryManager.initialize(config) together with               *)
(* MongoDBClient.initialize, RedisEventBus.initialize and                  *)
(* WebSocketSyncServer.start; failAt is the subsystem whose connect throws *)
RunsMongo(i, config) == config.enableMongoDB /\ config.mongodb
RunsRedis(i, config, failAt) ==
  config.enableRedis /\ config.redis /\ failAt # "mongodb"
RunsWs(i, config, failAt) ==
  config.enableWebSocket /\ config.websocket /\ failAt \notin {"mongodb", "redis"}

MayFailAt(i, config, failAt) ==
  CASE failAt = "none" -> TRUE
    [] failAt = "mongodb" ->
         CanFailDist /\ RunsMongo(i, config) /\ ~MongoIsConnected(i)
    [] failAt = "redis" ->
         /\ CanFailDist /\ RunsRedis(i, config, "none")
         /\ ~(bus[i].publisher /\ bus[i].subscriber)
    [] OTHER -> CanFailDist /\ RunsWs(i, config, "none")

BusAfterInitialize(i, config, failAt) ==
  IF ~RunsRedis(i, config, failAt) THEN bus[i]
  ELSE IF failAt = "redis"
  THEN [bus[i] EXCEPT !.publisher = FALSE, !.subscriber = FALSE,
                      !.open = FALSE, !.subscribed = FALSE]
  ELSE IF bus[i].publisher /\ bus[i].subscriber
  THEN setupRedisEventHandlers(bus[i])
  ELSE setupRedisEventHandlers(
         [bus[i] EXCEPT !.publisher = TRUE, !.subscriber = TRUE,
                        !.open = TRUE, !.subscribed = TRUE])

MongoAfterInitialize(i, config, failAt) ==
  IF ~RunsMongo(i, config) THEN mongoCli[i]
  ELSE IF failAt = "mongodb" THEN [client |-> FALSE, db |-> FALSE]
  ELSE [client |-> TRUE, db |-> TRUE]

Initialize(i) ==
  /\ NoCallRunning(i)
  /\ nInits < MaxInits
  /\ nInits' = nInits + 1
  /\ \E config \in DistConfigs, failAt \in {"none", "mongodb", "redis", "websocket"} :
       IF mgr[i].initialized
       THEN /\ failAt = "none"
            /\ UNCHANGED <<mgr, bus, mongoCli, dfaults>>
       ELSE /\ MayFailAt(i, config, failAt)
            /\ mongoCli' = [mongoCli EXCEPT ![i] = MongoAfterInitialize(i, config, failAt)]
            /\ bus' = [bus EXCEPT ![i] = BusAfterInitialize(i, config, failAt)]
            /\ mgr' = [mgr EXCEPT
                 ![i].config = <<config>>,
                 ![i].wsServer = IF RunsWs(i, config, failAt) THEN TRUE ELSE @,
                 ![i].initialized = (failAt = "none")]
            /\ dfaults' = IF failAt = "none" THEN dfaults ELSE dfaults + 1
  /\ UNCHANGED <<modeStateDocs, ctxDocs, transitionDocs, inbox, disp, pcall,
                 pubLog, received, nPublish>>
  /\ UNCHANGED <<modeVars, wsVars, lifeVars, hubVars, extVars>>

(* DistributedMemoryManager.shutdown: wsServer.stop(), redisEventBus.close() *)
(* (pUnsubscribe, quit; the handler Sets are kept), mongoDBClient.close()     *)
(* Messages not yet handed to the subscriber are lost with the connection.    *)
Shutdown(i) ==
  /\ NoCallRunning(i)
  /\ mgr[i].initialized \/ mgr[i].wsServer \/ BusIsConnected(i) \/ MongoIsConnected(i)
  /\ mgr' = [mgr EXCEPT ![i].wsServer = FALSE, ![i].initialized = FALSE]
  /\ bus' = [bus EXCEPT ![i] =
       IF BusIsConnected(i)
       THEN [@ EXCEPT !.publisher = FALSE, !.subscriber = FALSE,
                      !.open = FALSE, !.subscribed = FALSE]
       ELSE @]
  /\ inbox' = [inbox EXCEPT ![i] = IF BusIsConnected(i) THEN <<>> ELSE @]
  /\ pubLog' = [e \in DOMAIN pubLog |->
       IF BusIsConnected(i) /\ InSeq(e, [k \in DOMAIN inbox[i] |-> inbox[i][k].eventId])
       THEN [pubLog[e] EXCEPT !.to = @ \ {i}] ELSE pubLog[e]]
  /\ mongoCli' = [mongoCli EXCEPT ![i] =
       IF MongoIsConnected(i) THEN [client |-> FALSE, db |-> FALSE] ELSE @]
  /\ UNCHANGED <<modeStateDocs, ctxDocs, transitionDocs, disp, pcall,
                 received, dfaults, nInits, nPublish>>
  /\ UNCHANGED <<modeVars, wsVars, lifeVars, hubVars, extVars>>

(* ---------------- publishModeChange / publishContextUpdate ------------- *)

(* the sinks in the order the body of publishModeChange visits them *)
SinkOrderMut == <<"store", "bus", "ws">>
SinkOrder == <<"bus", "store", "ws">>

(* publishContextUpdate has the bus and the store step, in the same order, *)
(* and no broadcast                                                        *)
SinksOf(kind) ==
  IF kind = "mode" THEN SinkOrder ELSE SelectSeq(SinkOrder, LAMBDA s : s # "ws")

SinkUp(i, sink) ==
  CASE sink = "bus" -> BusIsConnected(i)
    [] sink = "store" -> MongoIsConnected(i)
    [] OTHER -> mgr[i].wsServer

(* the connection state the call finds on entry *)
Entered(c, i) ==
  [c EXCEPT !.busUp = BusIsConnected(i), !.mongoUp = MongoIsConnected(i),
            !.wsUp = mgr[i].wsServer]

(* Run the method body from sink number k up to the next await: a sink     *)
(* that is not connected is skipped, wsServer.broadcast is synchronous,    *)
(* the bus publish and the store write are awaited.                        *)
RECURSIVE RunFrom(_, _, _)
RunFrom(c, i, k) ==
  IF k > Len(SinksOf(c.kind)) THEN [c EXCEPT !.pc = "returned"]
  ELSE LET sink == SinksOf(c.kind)[k] IN
       IF ~SinkUp(i, sink) THEN RunFrom(c, i, k + 1)
       ELSE LET c1 == [c EXCEPT !.sinks = Append(@, sink)] IN
            IF sink = "ws" THEN RunFrom(c1, i, k + 1)
            ELSE [c1 EXCEPT !.pc = IF sink = "bus" THEN "awaitBus" ELSE "awaitStore"]

IndexOf(s, x) == CHOOSE k \in DOMAIN s : s[k] = x

PublishBegin(i, c) ==
  /\ NoCallRunning(i)
  /\ nPublish < MaxPublish
  /\ nPublish' = nPublish + 1
  /\ pcall' = [pcall EXCEPT ![i] = RunFrom(Entered(c, i), i, 1)]
  /\ UNCHANGED <<mgr, bus, mongoCli, modeStateDocs, ctxDocs, transitionDocs,
                 inbox, disp, pubLog, received, dfaults, nInits>>
  /\ UNCHANGED <<modeVars, wsVars, lifeVars, hubVars, extVars>>

publishModeChange(i) ==
  \E u \in Users, m \in {<<Null, "inspired">>, <<"inspired", "didactic">>},
     cfg \in {Undefined} :
    PublishBegin(i, [IdlePCall EXCEPT !.kind = "mode", !.userId = u,
                       !.fromMode = m[1], !.toMode = m[2], !.configuration = cfg])

publishContextUpdate(i) ==
  \E u \in Users, k \in Keys, d \in Data, v \in Versions :
    PublishBegin(i, [IdlePCall EXCEPT !.kind = "ctx", !.userId = u,
                       !.contextKey = k, !.data = d, !.version = v])

(* JSON.stringify drops members whose value is undefined *)
StringifyPayloadMut(c) ==
  IF c.kind = "mode"
  THEN [fromMode |-> c.fromMode, toMode |-> c.toMode]
  ELSE [contextKey |-> "k1", contextType |-> "chat",
        data |-> c.data, version |-> c.version]
StringifyPayload(c) ==
  IF c.kind = "mode"
  THEN IF c.configuration = Undefined
       THEN [fromMode |-> c.fromMode, toMode |-> c.toMode]
       ELSE [fromMode |-> c.fromMode, toMode |-> c.toMode,
             configuration |-> c.configuration]
  ELSE [contextKey |-> c.contextKey, contextType |-> "chat",
        data |-> c.data, version |-> c.version]

(* RedisEventBus.publish: the envelope, serialised; metadata is undefined *)
EventMessage(i, c, eventId) ==
  [eventId |-> eventId,
   eventType |-> IF c.kind = "mode" THEN "mode:changed" ELSE "context:updated",
   userId |-> c.userId,
   instanceId |-> InstanceId[i],
   payload |-> StringifyPayload(c)]

Subscribers == {j \in Inst : bus[j].subscribed /\ bus[j].open}

(* await this.publisher.publish(channel, message) settles: the bus hands   *)
(* the message to every pattern subscriber, the publisher's own included;  *)
(* a rejection is logged and rethrown by publish, and the orchestrator     *)
(* method has no try block                                                 *)
BusPublishDoneMut(i) ==
  /\ pcall[i].pc = "awaitBus"
  /\ \/ /\ LET msg == EventMessage(i, pcall[i], Len(pubLog) + 1) IN
           /\ inbox' = [j \in Inst |->
                IF j \in Subscribers THEN Append(Append(inbox[j], msg), msg)
                ELSE inbox[j]]
           /\ pubLog' = Append(Append(pubLog,
                [inst |-> i, eventType |-> msg.eventType,
                 contextKey |-> pcall[i].contextKey, to |-> Subscribers]),
                [inst |-> i, eventType |-> msg.eventType,
                 contextKey |-> pcall[i].contextKey, to |-> Subscribers])
        /\ pcall' = [pcall EXCEPT ![i] =
             RunFrom(@, i, IndexOf(SinksOf(@.kind), "bus") + 1)]
        /\ UNCHANGED dfaults
     \/ /\ CanFailDist
        /\ dfaults' = dfaults + 1
        /\ pcall' = [pcall EXCEPT ![i].pc = "raised"]
        /\ UNCHANGED <<inbox, pubLog>>
  /\ UNCHANGED <<mgr, bus, mongoCli, modeStateDocs, ctxDocs, transitionDocs,
                 disp, received, nInits, nPublish>>
  /\ UNCHANGED <<modeVars, wsVars, lifeVars, hubVars, extVars>>
BusPublishDone(i) ==
  /\ pcall[i].pc = "awaitBus"
  /\ \/ /\ LET msg == EventMessage(i, pcall[i], Len(pubLog) + 1) IN
           /\ inbox' = [j \in Inst |->
                IF j \in Subscribers THEN Append(inbox[j], msg) ELSE inbox[j]]
           /\ pubLog' = Append(pubLog,
                [inst |-> i, eventType |-> msg.eventType,
                 contextKey |-> pcall[i].contextKey, to |-> Subscribers])
        /\ pcall' = [pcall EXCEPT ![i] =
             RunFrom(@, i, IndexOf(SinksOf(@.kind), "bus") + 1)]
        /\ UNCHANGED dfaults
     \/ /\ CanFailDist
        /\ dfaults' = dfaults + 1
        /\ pcall' = [pcall EXCEPT ![i].pc = "raised"]
        /\ UNCHANGED <<inbox, pubLog>>
  /\ UNCHANGED <<mgr, bus, mongoCli, modeStateDocs, ctxDocs, transitionDocs,
                 disp, received, nInits, nPublish>>
  /\ UNCHANGED <<modeVars, wsVars, lifeVars, hubVars, extVars>>

(* updateOne({userId, contextKey}, {$set, $setOnInsert}, {upsert: true}) *)
UpsertLocalContext(docs, i, c) ==
  LET key == <<c.userId, c.contextKey>> IN
  [docs EXCEPT ![key] =
     IF docs[key] = <<>>
     THEN <<[userId |-> c.userId, contextKey |-> c.contextKey,
             contextType |-> "chat", data |-> c.data, version |-> c.version,
             lastModifiedBy |-> InstanceId[i], createdBy |-> InstanceId[i]]>>
     ELSE <<[docs[key][1] EXCEPT !.contextType = "chat", !.data = c.data,
                                 !.version = c.version,
                                 !.lastModifiedBy = InstanceId[i]]>>]

(* the awaited insertOne / updateOne settles; a rejection propagates *)
StoreWriteDone(i) ==
  /\ pcall[i].pc = "awaitStore"
  /\ \/ /\ IF pcall[i].kind = "mode"
           THEN /\ transitionDocs' = Append(transitionDocs,
                     [userId |-> pcall[i].userId, instanceId |-> InstanceId[i],
                      fromMode |-> pcall[i].fromMode, toMode |-> pcall[i].toMode,
                      success |-> TRUE])
                /\ UNCHANGED ctxDocs
           ELSE /\ ctxDocs' = UpsertLocalContext(ctxDocs, i, pcall[i])
                /\ UNCHANGED transitionDocs
        /\ pcall' = [pcall EXCEPT ![i] =
             RunFrom(@, i, IndexOf(SinksOf(@.kind), "store") + 1)]
        /\ UNCHANGED dfaults
     \/ /\ CanFailDist
        /\ dfaults' = dfaults + 1
        /\ pcall' = [pcall EXCEPT ![i].pc = "raised"]
        /\ UNCHANGED <<transitionDocs, ctxDocs>>
  /\ UNCHANGED <<mgr, bus, mongoCli, modeStateDocs, inbox, disp, pubLog,
                 received, nInits, nPublish>>
  /\ UNCHANGED <<modeVars, wsVars, lifeVars, hubVars, extVars>>

(* ------------------- RedisEventBus.handleRedisMessage ------------------ *)

(* if (event.instanceId === this.instanceId) return *)
IsOwnEventMut(event, i) == FALSE
IsOwnEvent(event, i) == event.instanceId = InstanceId[i]

EndedDisp(d, n) == [d EXCEPT !.phase = "done", !.count = n]

(* message = JSON text of the envelope; JSON.parse gives back the members  *)
(* that were serialised                                                    *)
Receive(i) ==
  /\ inbox[i] # <<>>
  /\ disp[i].phase \in {"idle", "done", "dropped"}
  /\ LET event == Head(inbox[i])
         handlers == bus[i].handlers[event.eventType]
         d == [IdleDisp EXCEPT !.event = <<event>>]
     IN IF IsOwnEvent(event, i)
        THEN /\ disp' = [disp EXCEPT ![i] = [d EXCEPT !.phase = "dropped"]]
             /\ received' = [received EXCEPT ![i] = Append(@, event.eventId)]
        ELSE IF Len(handlers) = 0
        THEN /\ disp' = [disp EXCEPT ![i] = EndedDisp(d, 0)]
             /\ received' = [received EXCEPT ![i] = Append(@, event.eventId)]
        ELSE /\ disp' = [disp EXCEPT ![i] = [d EXCEPT !.phase = "handlers"]]
             /\ UNCHANGED received
  /\ inbox' = [inbox EXCEPT ![i] = Tail(@)]
  /\ UNCHANGED <<mgr, bus, mongoCli, modeStateDocs, ctxDocs, transitionDocs,
                 pcall, pubLog, dfaults, nInits, nPublish>>
  /\ UNCHANGED <<modeVars, wsVars, lifeVars, hubVars, extVars>>

InvRecord(h, event) ==
  [h |-> h,
   key |-> IF event.eventType = "context:updated"
           THEN event.payload.contextKey ELSE Null,
   from |-> event.instanceId,
   threw |-> FALSE, seq |-> <<>>, mongoUp |-> FALSE, wsUp |-> FALSE,
   storeOk |-> FALSE, done |-> FALSE]

(* the for-of loop over the live handler Set moves on after a handler has  *)
(* settled, whether it fulfilled or was caught: a throw does not end it    *)
NextIdxMut(d, threw) == IF threw THEN 1000 ELSE d.idx + 1
NextIdx(d, threw) == d.idx + 1

(* n is the size of the handler Set when the invocation has settled *)
AdvanceTo(d, n, threw) ==
  LET k == NextIdx(d, threw)
  IN IF k > n THEN [EndedDisp(d, n) EXCEPT !.idx = k]
     ELSE [d EXCEPT !.phase = "handlers", !.idx = k]

Advance(d, i, threw) ==
  AdvanceTo(d, Len(bus[i].handlers[d.event[1].eventType]), threw)

(* the orchestrator's closure after its store step: broadcast to the       *)
(* transport if this.wsServer is set                                       *)
AfterSyncMut(r, i, ok) ==
  [r EXCEPT !.storeOk = ok, !.wsUp = mgr[i].wsServer,
            !.seq = IF mgr[i].wsServer /\ ok THEN Append(@, "ws") ELSE @,
            !.done = TRUE]
AfterSync(r, i, ok) ==
  [r EXCEPT !.storeOk = ok, !.wsUp = mgr[i].wsServer,
            !.seq = IF mgr[i].wsServer THEN Append(@, "ws") ELSE @,
            !.done = TRUE]

SetLast(s, x) == [s EXCEPT ![Len(s)] = x]

EndIfDone(i, d) ==
  /\ disp' = [disp EXCEPT ![i] = d]
  /\ received' = [received EXCEPT ![i] =
       IF d.phase = "done" THEN Append(@, d.event[1].eventId) ELSE @]

(* await handler(event) inside try/catch: a handler of the application     *)
(* runs (and may throw); a closure of the orchestrator runs up to its      *)
(* first await                                                             *)
InvokeHandler(i) ==
  /\ disp[i].phase = "handlers"
  /\ LET d == disp[i]
         event == d.event[1]
         h == bus[i].handlers[event.eventType][d.idx]
         r == InvRecord(h, event)
     IN IF h.kind = "user"
        THEN \E threw \in BOOLEAN :
               /\ threw => CanFailDist
               /\ dfaults' = IF threw THEN dfaults + 1 ELSE dfaults
               /\ EndIfDone(i, Advance(
                    [d EXCEPT !.inv = Append(@, [r EXCEPT !.threw = threw,
                                                          !.done = TRUE])],
                    i, threw))
        ELSE /\ UNCHANGED dfaults
             /\ IF MongoIsConnected(i)
                THEN EndIfDone(i,
                       [d EXCEPT !.phase = "awaitSync",
                                 !.inv = Append(@, [r EXCEPT !.mongoUp = TRUE,
                                                             !.seq = <<"store">>])])
                ELSE EndIfDone(i, Advance(
                       [d EXCEPT !.inv = Append(@, AfterSync(r, i, FALSE))],
                       i, FALSE))
  /\ UNCHANGED <<mgr, bus, mongoCli, modeStateDocs, ctxDocs, transitionDocs,
                 inbox, pcall, pubLog, nInits, nPublish>>
  /\ UNCHANGED <<modeVars, wsVars, lifeVars, hubVars, extVars>>

(* syncContextToMongoDB: updateOne({userId, contextKey}, {$set: {data,     *)
(* updatedAt, metadata.version, metadata.lastModifiedBy}}, {upsert: true}) *)
syncContextToMongoDBMut(docs, event) ==
  LET key == <<event.userId, event.payload.contextKey>> IN
  [docs EXCEPT ![key] =
     IF docs[key] = <<>>
     THEN <<[userId |-> event.userId, contextKey |-> event.payload.contextKey,
             contextType |-> Undefined, data |-> event.payload.data,
             version |-> event.payload.version,
             lastModifiedBy |-> event.instanceId, createdBy |-> Undefined]>>
     ELSE IF event.payload.version < docs[key][1].version THEN docs[key]
     ELSE <<[docs[key][1] EXCEPT !.data = event.payload.data,
                                 !.version = event.payload.version,
                                 !.lastModifiedBy = event.instanceId]>>]
syncContextToMongoDB(docs, event) ==
  LET key == <<event.userId, event.payload.contextKey>> IN
  [docs EXCEPT ![key] =
     IF docs[key] = <<>>
     THEN <<[userId |-> event.userId, contextKey |-> event.payload.contextKey,
             contextType |-> Undefined, data |-> event.payload.data,
             version |-> event.payload.version,
             lastModifiedBy |-> event.instanceId, createdBy |-> Undefined]>>
     ELSE <<[docs[key][1] EXCEPT !.data = event.payload.data,
                                 !.version = event.payload.version,
                                 !.lastModifiedBy = event.instanceId]>>]

(* syncModeStateToMongoDB: updateOne({userId, instanceId}, {$set:          *)
(* {currentMode, previousMode, updatedAt, syncVersion: {$inc: 1}}},        *)
(* {upsert: true}).  The value set for syncVersion is the document         *)
(* {$inc: 1}, not an increment.                                            *)
syncModeStateToMongoDB(docs, event) ==
  [docs EXCEPT ![<<event.userId, event.instanceId>>] =
     <<[userId |-> event.userId, instanceId |-> event.instanceId,
        currentMode |-> event.payload.toMode,
        previousMode |-> event.payload.fromMode,
        syncVersion |-> [isInt |-> FALSE, n |-> 0]]>>]

(* the awaited store update of the orchestrator's closure settles; the     *)
(* sync methods catch and log every error.  A server that refuses          *)
(* $-prefixed member names rejects the mode_state update.                  *)
SyncDone(i) ==
  /\ disp[i].phase = "awaitSync"
  /\ LET d == disp[i]
         event == d.event[1]
         r == d.inv[Len(d.inv)]
         next(ok) == Advance([d EXCEPT !.inv = SetLast(@, AfterSync(r, i, ok))],
                             i, FALSE)
     IN \/ /\ event.eventType = "context:updated"
           /\ ctxDocs' = syncContextToMongoDB(ctxDocs, event)
           /\ EndIfDone(i, next(TRUE))
           /\ UNCHANGED <<modeStateDocs, dfaults>>
        \/ /\ event.eventType = "mode:changed"
           /\ modeStateDocs' = syncModeStateToMongoDB(modeStateDocs, event)
           /\ EndIfDone(i, next(TRUE))
           /\ UNCHANGED <<ctxDocs, dfaults>>
        \/ /\ event.eventType = "mode:changed"
           /\ EndIfDone(i, next(FALSE))
           /\ UNCHANGED <<ctxDocs, modeStateDocs, dfaults>>
        \/ /\ CanFailDist
           /\ dfaults' = dfaults + 1
           /\ EndIfDone(i, next(FALSE))
           /\ UNCHANGED <<ctxDocs, modeStateDocs>>
  /\ UNCHANGED <<mgr, bus, mongoCli, transitionDocs, inbox, pcall, pubLog,
                 nInits, nPublish>>
  /\ UNCHANGED <<modeVars, wsVars, lifeVars, hubVars, extVars>>

(* ------------- RedisEventBus.initialize, events of other processes ----- *)

(* RedisEventBus.initialize called on the exported bus itself: connects    *)
(* publisher and subscriber and pSubscribes; on an error both are reset to *)
(* null and the error is rethrown                                          *)
BusInitialize(i) ==
  /\ ~(bus[i].publisher /\ bus[i].subscriber)
  /\ \/ /\ bus' = [bus EXCEPT ![i].publisher = TRUE, ![i].subscriber = TRUE,
                              ![i].open = TRUE, ![i].subscribed = TRUE]
        /\ UNCHANGED dfaults
     \/ /\ CanFailDist
        /\ dfaults' = dfaults + 1
        /\ bus' = [bus EXCEPT ![i].publisher = FALSE, ![i].subscriber = FALSE]
  /\ UNCHANGED <<mgr, mongoCli, modeStateDocs, ctxDocs, transitionDocs,
                 inbox, disp, pcall, pubLog, received, nInits, nPublish>>
  /\ UNCHANGED <<modeVars, wsVars, lifeVars, hubVars, extVars>>

(* the instance whose dispatchers are observed in SpecDispatch *)
DispatchInst == {"A"}

DeliverKeys == {"k1"}

(* RedisEventBus.publish of the process with id InstanceId[j], running     *)
(* elsewhere: the bus hands the serialised envelope to subscriber i        *)
Deliver(i, j) ==
  /\ i # j
  /\ i \in Subscribers
  /\ Len(pubLog) < MaxDeliver
  /\ \E c \in {[IdlePCall EXCEPT !.kind = "mode", !.userId = "u1",
                                 !.toMode = "inspired"]}
              \cup {[IdlePCall EXCEPT !.kind = "ctx", !.userId = "u1",
                                      !.contextKey = k, !.data = "d1",
                                      !.version = 1] : k \in DeliverKeys} :
       LET msg == EventMessage(j, c, Len(pubLog) + 1) IN
       /\ inbox' = [inbox EXCEPT ![i] = Append(@, msg)]
       /\ pubLog' = Append(pubLog,
            [inst |-> j, eventType |-> msg.eventType,
             contextKey |-> c.contextKey, to |-> {i}])
  /\ UNCHANGED <<mgr, bus, mongoCli, modeStateDocs, ctxDocs, transitionDocs,
                 disp, pcall, received, dfaults, nInits, nPublish>>
  /\ UNCHANGED <<modeVars, wsVars, lifeVars, hubVars, extVars>>

(* ------- WebSocketSyncServer / WebSocketSyncClient: handleMessage ------- *)

IdleWsDisp ==
  [phase |-> "idle", type |-> Null, idx |-> 1, inv |-> <<>>, count |-> 0]

WsInit ==
  /\ wsOpen = [e \in WsEndpoints |-> FALSE]
  /\ wsHandlers = [e \in WsEndpoints |-> [t \in WsTypes |-> <<>>]]
  /\ wsDisp = [e \in WsEndpoints |-> IdleWsDisp]
  /\ nWsMsgs = [e \in WsEndpoints |-> 0]
  /\ wsThrows = [e \in WsEndpoints |-> 0]

(* the type handleMessage answers itself and returns: ping on the server,  *)
(* pong on the client                                                      *)
KeepAlive(e) == IF e = "server" THEN "ping" ELSE "pong"

NumWsHandlers(e) ==
  SumOver(WsTypes, [t \in WsTypes |-> Len(wsHandlers[e][t])])

(* on(type, handler) with a new function value *)
WsOn(e, t) ==
  /\ NumWsHandlers(e) < MaxWsOn
  /\ wsHandlers' = [wsHandlers EXCEPT ![e][t] =
       Append(@, [kind |-> "user", id |-> NumWsHandlers(e) + 1])]
  /\ UNCHANGED <<wsOpen, wsDisp, nWsMsgs, wsThrows>>
  /\ UNCHANGED <<modeVars, distVars, lifeVars, hubVars, extVars>>

(* WebSocketSyncServer.start: this.wss = new WebSocketServer({port}) *)
WsServerStart ==
  /\ ~wsOpen["server"]
  /\ wsOpen' = [wsOpen EXCEPT !["server"] = TRUE]
  /\ UNCHANGED <<wsHandlers, wsDisp, nWsMsgs, wsThrows>>
  /\ UNCHANGED <<modeVars, distVars, lifeVars, hubVars, extVars>>

(* WebSocketSyncClient.connect: the socket's open event *)
WsClientConnect ==
  /\ ~wsOpen["client"]
  /\ wsOpen' = [wsOpen EXCEPT !["client"] = TRUE]
  /\ UNCHANGED <<wsHandlers, wsDisp, nWsMsgs, wsThrows>>
  /\ UNCHANGED <<modeVars, distVars, lifeVars, hubVars, extVars>>

WsEnded(e) == wsDisp[e].phase \in {"idle", "done", "returned", "parseError"}

(* the socket's message event calls handleMessage(data): JSON.parse throws *)
(* on malformed data (caught by the outer try), ping / pong return before  *)
(* the handler loop, any other type runs the handlers of that type         *)
WsHandleMessage(e) ==
  /\ wsOpen[e]
  /\ WsEnded(e)
  /\ nWsMsgs[e] < MaxWsMessages
  /\ nWsMsgs' = [nWsMsgs EXCEPT ![e] = @ + 1]
  /\ \E type \in WsTypes \cup {KeepAlive(e), "malformed"} :
       wsDisp' = [wsDisp EXCEPT ![e] =
         LET d == [IdleWsDisp EXCEPT !.type = type] IN
         IF type = "malformed" THEN [d EXCEPT !.phase = "parseError"]
         ELSE IF type = KeepAlive(e) THEN [d EXCEPT !.phase = "returned"]
         ELSE IF Len(wsHandlers[e][type]) = 0 THEN EndedDisp(d, 0)
         ELSE [d EXCEPT !.phase = "handlers"]]
  /\ UNCHANGED <<wsOpen, wsHandlers, wsThrows>>
  /\ UNCHANGED <<modeVars, distVars, lifeVars, hubVars, extVars>>

(* await handler(message, clientId) inside try/catch *)
WsInvoke(e) ==
  /\ wsDisp[e].phase = "handlers"
  /\ \E threw \in BOOLEAN :
       /\ threw => wsThrows[e] < MaxWsThrows
       /\ wsThrows' = [wsThrows EXCEPT ![e] = IF threw THEN @ + 1 ELSE @]
       /\ LET d == wsDisp[e]
              hs == wsHandlers[e][d.type]
          IN wsDisp' = [wsDisp EXCEPT ![e] =
               AdvanceTo([d EXCEPT !.inv = Append(@, [h |-> hs[d.idx],
                                                      threw |-> threw])],
                         Len(hs), threw)]
  /\ UNCHANGED <<wsOpen, wsHandlers, nWsMsgs>>
  /\ UNCHANGED <<modeVars, distVars, lifeVars, hubVars, extVars>>

(* ===================== orchestrator lifecycle ========================== *)
(* initialize, shutdown and getStatus of the orchestrator of instance A,   *)
(* one await per step                                                      *)

NewServer == [wss |-> FALSE, pingInterval |-> FALSE, handlers |-> 0]

IdleLCall ==
  [pc |-> "idle", op |-> "none", config |-> <<>>, trace |-> <<>>,
   failed |-> "none", pre |-> <<>>, status |-> <<>>]

LifeInit ==
  /\ lcall = IdleLCall
  /\ nLife = 0
  /\ srv = NewServer

(* a lifecycle call is entered; pre is the state it finds *)
LifeBegin(op, config, pc, status) ==
  /\ lcall.pc \in {"idle", "returned", "raised"}
  /\ nLife < MaxLifeCalls
  /\ nLife' = nLife + 1
  /\ lcall' = [IdleLCall EXCEPT
       !.pc = pc, !.op = op, !.config = config, !.status = status,
       !.pre = <<[mgr |-> mgr["A"], bus |-> bus["A"],
                  mongo |-> mongoCli["A"], srv |-> srv]>>]

(* if (this.initialized) return *)
AlreadyInitializedMut(m) == FALSE
AlreadyInitialized(m) == m.initialized

(* initialize(config): the guard and this.config = config *)
LifeInitialize ==
  \E config \in LifeConfigs :
    /\ LifeBegin("initialize", <<config>>,
                 IF AlreadyInitialized(mgr["A"]) THEN "returned" ELSE "mongo", <<>>)
    /\ mgr' = IF AlreadyInitialized(mgr["A"]) THEN mgr
              ELSE [mgr EXCEPT !["A"].config = <<config>>]
    /\ UNCHANGED <<bus, mongoCli, modeStateDocs, ctxDocs, transitionDocs, inbox,
                   disp, pcall, pubLog, received, dfaults, nInits, nPublish>>
    /\ UNCHANGED <<modeVars, wsVars, hubVars, extVars>>

(* the catch blocks of initialize: if (config.enableX) throw error *)
AfterConnectMut(ok, next) == next
AfterConnect(ok, next) == IF ok THEN next ELSE "raised"

(* one subsystem block of initialize *)
LifeInitStep ==
  /\ lcall.op = "initialize"
  /\ lcall.pc \in {"mongo", "redis", "ws"}
  /\ LET config == lcall.config[1]
         tried(name, ok, next) ==
           [lcall EXCEPT !.trace = Append(@, name),
                         !.failed = IF ok THEN @ ELSE name,
                         !.pc = AfterConnect(ok, next)]
         done(c) == c.pc = "returned"
     IN \E ok \in BOOLEAN :
          /\ dfaults' = IF ok THEN dfaults ELSE dfaults + 1
          /\ CASE lcall.pc = "mongo" ->
                    /\ UNCHANGED <<bus, srv, mgr>>
                    /\ IF ~RunsMongo("A", config) \/ MongoIsConnected("A")
                       THEN /\ ok
                            /\ lcall' = [lcall EXCEPT !.pc = "redis"]
                            /\ UNCHANGED mongoCli
                       ELSE /\ ~ok => CanFailDist
                            /\ lcall' = tried("mongo.connect", ok, "redis")
                            /\ mongoCli' = [mongoCli EXCEPT !["A"] =
                                 [client |-> ok, db |-> ok]]
               [] lcall.pc = "redis" ->
                    /\ UNCHANGED <<mongoCli, srv, mgr>>
                    /\ IF ~RunsRedis("A", config, "none")
                       THEN /\ ok
                            /\ lcall' = [lcall EXCEPT !.pc = "ws"]
                            /\ UNCHANGED bus
                       ELSE IF bus["A"].publisher /\ bus["A"].subscriber
                       THEN /\ ok
                            /\ lcall' = [lcall EXCEPT !.pc = "ws"]
                            /\ bus' = [bus EXCEPT !["A"] = setupRedisEventHandlers(@)]
                       ELSE /\ ~ok => CanFailDist
                            /\ lcall' = tried("redis.connect", ok, "ws")
                            /\ bus' = [bus EXCEPT !["A"] =
                                 IF ok
                                 THEN setupRedisEventHandlers(
                                        [@ EXCEPT !.publisher = TRUE,
                                                  !.subscriber = TRUE,
                                                  !.open = TRUE,
                                                  !.subscribed = TRUE])
                                 ELSE [@ EXCEPT !.publisher = FALSE,
                                                !.subscriber = FALSE,
                                                !.open = FALSE,
                                                !.subscribed = FALSE]]
               [] OTHER ->
                    /\ UNCHANGED <<mongoCli, bus>>
                    /\ IF ~RunsWs("A", config, "none")
                       THEN /\ ok
                            /\ lcall' = [lcall EXCEPT !.pc = "returned"]
                            /\ mgr' = [mgr EXCEPT !["A"].initialized = TRUE]
                            /\ UNCHANGED srv
                       ELSE /\ ~ok => CanFailDist
                            /\ lcall' = tried("ws.start", ok, "returned")
                            /\ srv' = IF ok
                                      THEN [wss |-> TRUE, pingInterval |-> TRUE,
                                            handlers |-> 1]
                                      ELSE NewServer
                            /\ mgr' = [mgr EXCEPT
                                 !["A"].wsServer = TRUE,
                                 !["A"].initialized = done(lcall')]
  /\ UNCHANGED <<modeStateDocs, ctxDocs, transitionDocs, inbox, disp, pcall,
                 pubLog, received, nInits, nPublish, nLife>>
  /\ UNCHANGED <<modeVars, wsVars, hubRest, extVars>>

(* the statements of shutdown, in the order of the method body *)
ShutdownOrderMut == <<"store.close", "bus.close", "ws.stop">>
ShutdownOrder == <<"ws.stop", "bus.close", "store.close">>

LifeShutdown ==
  /\ LifeBegin("shutdown", <<>>, "1", <<>>)
  /\ UNCHANGED <<distVars, modeVars, wsVars, hubVars, extVars>>

(* one statement of shutdown: wsServer.stop() may reject (wss.close        *)
(* reports an error); redisEventBus.close and mongoDBClient.close catch    *)
(* their errors                                                            *)
LifeShutdownStep ==
  /\ lcall.op = "shutdown"
  /\ lcall.pc \in {"1", "2", "3"}
  /\ LET k == CHOOSE n \in 1..3 : lcall.pc = <<"1", "2", "3">>[n]
         what == ShutdownOrder[k]
         next == IF k = 3 THEN "returned" ELSE <<"2", "3">>[k]
         up == CASE what = "ws.stop" -> mgr["A"].wsServer
                 [] what = "bus.close" -> BusIsConnected("A")
                 [] OTHER -> MongoIsConnected("A")
     IN \E ok \in BOOLEAN :
          /\ ~ok => (CanFailDist /\ what = "ws.stop" /\ up /\ srv.wss)
          /\ dfaults' = IF ok THEN dfaults ELSE dfaults + 1
          /\ lcall' = [lcall EXCEPT
               !.trace = IF up THEN Append(@, what) ELSE @,
               !.failed = IF ok THEN @ ELSE what,
               !.pc = IF ok THEN next ELSE "raised"]
          /\ srv' = IF what = "ws.stop" /\ up
                    THEN [srv EXCEPT !.pingInterval = FALSE,
                                     !.wss = IF ok THEN FALSE ELSE @]
                    ELSE srv
          /\ mgr' = [mgr EXCEPT
               !["A"].wsServer = IF what = "ws.stop" /\ ok THEN FALSE ELSE @,
               !["A"].initialized = IF ok /\ k = 3 THEN FALSE ELSE @]
          /\ bus' = IF what = "bus.close" /\ up
                    THEN [bus EXCEPT !["A"].publisher = FALSE,
                                     !["A"].subscriber = FALSE,
                                     !["A"].open = FALSE,
                                     !["A"].subscribed = FALSE]
                    ELSE bus
          /\ mongoCli' = IF what = "store.close" /\ up
                         THEN [mongoCli EXCEPT !["A"] = [client |-> FALSE, db |-> FALSE]]
                         ELSE mongoCli
  /\ UNCHANGED <<modeStateDocs, ctxDocs, transitionDocs, inbox, disp, pcall,
                 pubLog, received, nInits, nPublish, nLife>>
  /\ UNCHANGED <<modeVars, wsVars, hubRest, extVars>>

(* healthCheck: false without a handle, else the ping inside try/catch *)
HealthCheckMut(handle, pingOk) ==
  IF ~handle THEN "false" ELSE IF pingOk THEN "true" ELSE "raise"
HealthCheck(handle, pingOk) ==
  IF ~handle THEN "false" ELSE IF pingOk THEN "true" ELSE "false"

(* config?.enableX ?? false *)
Enabled(m, field) == m.config # <<>> /\ m.config[1][field]

(* getStatus: the status object; mh and rh are the health values read *)
StatusObject(mh, rh) ==
  LET m == mgr["A"]
      mongodb == [enabled |-> Enabled(m, "enableMongoDB"),
                  connected |-> MongoIsConnected("A"), healthy |-> mh = "true"]
      redis == [enabled |-> Enabled(m, "enableRedis"),
                connected |-> BusIsConnected("A"), healthy |-> rh = "true"]
      websocket == [enabled |-> Enabled(m, "enableWebSocket"),
                    running |-> m.wsServer]
  IN [mongodb |-> mongodb, redis |-> redis, websocket |-> websocket,
      isFullyOperational |->
        /\ ~mongodb.enabled \/ (mongodb.connected /\ mongodb.healthy)
        /\ ~redis.enabled \/ (redis.connected /\ redis.healthy)
        /\ ~websocket.enabled \/ m.wsServer]

(* getStatus(): healthCheck is called on a client that is connected *)
LifeGetStatus ==
  \E mongoPing \in BOOLEAN, redisPing \in BOOLEAN :
    LET mh == IF MongoIsConnected("A")
              THEN HealthCheck(mongoCli["A"].db, mongoPing) ELSE "false"
        rh == IF BusIsConnected("A")
              THEN HealthCheck(bus["A"].publisher, redisPing) ELSE "false"
    IN /\ LifeBegin("getStatus", <<>>,
                    IF "raise" \in {mh, rh} THEN "raised" ELSE "returned",
                    <<[mongoPing |-> mongoPing, redisPing |-> redisPing,
                       value |-> StatusObject(mh, rh)]>>)
       /\ UNCHANGED <<distVars, modeVars, wsVars, hubVars, extVars>>

LifeNext ==
  \/ LifeInitialize
  \/ LifeInitStep
  \/ LifeShutdown
  \/ LifeShutdownStep
  \/ LifeGetStatus

(* ========================= transport hub =============================== *)
(* the WebSocketSyncServer of instance A with the state-request handler    *)
(* of the orchestrator, its sockets, registry and heartbeat                *)

ConnIds == {"c1", "c2"}
HubUsers == {"u1", "u2"}
HubTypes == {"ping", "pong", "state-request"}
(* 90000 ms in heartbeat periods *)
StaleAfter == 3

IdleStop == [pc |-> "idle", trace |-> <<>>, pre |-> <<>>, n |-> 0]

HubInit ==
  /\ conns = [c \in ConnIds |->
       [state |-> "none", user |-> "", seen |-> 0, got |-> <<>>,
        last |-> <<>>]]
  /\ clients = [c \in ConnIds |-> <<>>]
  /\ hubNow = 0
  /\ hubTicks = <<>>
  /\ hstop = IdleStop
  /\ nHubMsgs = 0

(* initialize with the transport enabled, and the store enabled or not:    *)
(* new WebSocketSyncServer(), start(port), setupWebSocketHandlers(); the   *)
(* orchestrator starts a server object once                                *)
HubStart ==
  /\ srv = NewServer
  /\ hstop.pc # "closing"
  /\ \E storeUp \in BOOLEAN :
       mongoCli' = [mongoCli EXCEPT !["A"] = [client |-> storeUp, db |-> storeUp]]
  /\ srv' = [wss |-> TRUE, pingInterval |-> TRUE, handlers |-> 1]
  /\ mgr' = [mgr EXCEPT !["A"].wsServer = TRUE]
  /\ hstop' = [IdleStop EXCEPT !.n = hstop.n]
  /\ UNCHANGED <<bus, modeStateDocs, ctxDocs, transitionDocs, inbox, disp,
                 pcall, pubLog, received, dfaults, nInits, nPublish>>
  /\ UNCHANGED <<conns, clients, hubNow, hubTicks, nHubMsgs>>
  /\ UNCHANGED <<modeVars, wsVars, lifeVars, extVars>>

(* send: only to a socket whose readyState is OPEN; at is the timestamp   *)
(* of a ping of the heartbeat pass, 0 in the other messages                *)
Send(cs, c, msg) ==
  IF cs[c].state = "open"
  THEN [cs EXCEPT ![c].got = Append(@, msg)]
  ELSE cs

(* handleConnection: clientId = uuidv4(), the listeners, the welcome       *)
(* message; neither the registry nor the socket object is written          *)
handleConnection(c) ==
  /\ srv.wss
  /\ conns[c].state = "none"
  /\ conns' = Send([conns EXCEPT ![c].state = "open"], c,
                   [type |-> "connect", userId |-> "", at |-> 0])
  /\ UNCHANGED <<srv, clients, hubNow, hubTicks, hstop, nHubMsgs>>
  /\ UNCHANGED <<modeVars, distVars, wsVars, lifeVars, extVars>>

(* the clientId property of a socket object of wss.clients, which the      *)
(* registration looks for: no statement of the program assigns it          *)
SocketClientId(c) == Undefined

RECURSIVE SendAll(_, _, _)
(* for (const client of targets) this.send(client.ws, msg) *)
SendAll(cs, targets, msg) ==
  IF targets = {} THEN cs
  ELSE LET c == CHOOSE x \in targets : TRUE
       IN SendAll(Send(cs, c, msg), targets \ {c}, msg)

(* broadcastToUser: the registry entries whose userId is u *)
UserClients(reg, u) == {c \in ConnIds : reg[c] # <<>> /\ reg[c][1].userId = u}

(* handleMessage(clientId, data) for a message of a client: registration,  *)
(* ping, then the handlers of the type (the orchestrator's state-request   *)
(* handler)                                                                *)
handleMessage(c) ==
  /\ conns[c].state = "open"
  /\ nHubMsgs < MaxHubMessages
  /\ nHubMsgs' = nHubMsgs + 1
  /\ \E type \in HubTypes, u \in HubUsers \cup {""} :
       LET found == {x \in ConnIds : conns[x].state = "open"
                                     /\ SocketClientId(x) = c}
           reg1 == IF clients[c] = <<>> /\ u # "" /\ found # {}
                   THEN [clients EXCEPT ![c] =
                          <<[userId |-> u, instanceId |-> u,
                             connectedAt |-> hubNow, lastPing |-> hubNow]>>]
                   ELSE clients
           noted == [conns EXCEPT
                       ![c].user = IF @ = "" THEN u ELSE @,
                       ![c].seen = IF (conns[c].user = "" /\ u # "") \/ type = "ping"
                                   THEN hubNow ELSE @,
                       ![c].last = <<[type |-> type, userId |-> u, at |-> hubNow,
                                      storeUp |-> MongoIsConnected("A")]>>]
       IN IF type = "ping"
          THEN /\ clients' = IF reg1[c] # <<>>
                             THEN [reg1 EXCEPT ![c][1].lastPing = hubNow]
                             ELSE reg1
               /\ conns' = IF reg1[c] # <<>>
                           THEN Send(noted, c, [type |-> "pong", userId |-> u,
                                                at |-> 0])
                           ELSE noted
          ELSE /\ clients' = reg1
               /\ conns' = IF type = "state-request" /\ srv.handlers > 0
                              /\ MongoIsConnected("A")
                           THEN SendAll(noted, UserClients(reg1, u),
                                        [type |-> "state-response", userId |-> u,
                                         at |-> 0])
                           ELSE noted
  /\ UNCHANGED <<srv, hubNow, hubTicks, hstop>>
  /\ UNCHANGED <<modeVars, distVars, wsVars, lifeVars, extVars>>

(* the socket of a client closes: handleDisconnect(clientId) *)
handleDisconnect(c) ==
  /\ conns[c].state = "open"
  /\ conns' = [conns EXCEPT ![c].state = "closed"]
  /\ clients' = [clients EXCEPT ![c] = <<>>]
  /\ UNCHANGED <<srv, hubNow, hubTicks, hstop, nHubMsgs>>
  /\ UNCHANGED <<modeVars, distVars, wsVars, lifeVars, extVars>>

(* the interval timer fires after another 30 s: pingClients() *)
pingClients ==
  /\ srv.pingInterval
  /\ hubNow < MaxHubClock
  /\ hubNow' = hubNow + 1
  /\ LET t == hubNow + 1
         stale == {c \in ConnIds : clients[c] # <<>>
                                   /\ t - clients[c][1].lastPing > StaleAfter}
         kept == {c \in ConnIds : clients[c] # <<>>} \ stale
         identified == {c \in ConnIds : conns[c].state = "open" /\ conns[c].user # ""}
     IN /\ clients' = [c \in ConnIds |-> IF c \in stale THEN <<>> ELSE clients[c]]
        /\ conns' = SendAll([c \in ConnIds |->
                               IF c \in stale
                               THEN [conns[c] EXCEPT !.state = "closed"]
                               ELSE conns[c]],
                            kept, [type |-> "ping", userId |-> "", at |-> t])
        /\ hubTicks' = <<
             [at |-> t, stopped |-> hstop.pc = "returned",
              quiet |-> {c \in identified : t - conns[c].seen > StaleAfter},
              live |-> {c \in identified : t - conns[c].seen <= StaleAfter}]>>
  /\ UNCHANGED <<srv, hstop, nHubMsgs>>
  /\ UNCHANGED <<modeVars, distVars, wsVars, lifeVars, extVars>>

(* the statements of stop(), in the order of the method body *)
StopOrderMut == <<"closeClients", "wss.close", "clearInterval">>
StopOrder == <<"clearInterval", "closeClients", "wss.close">>

(* stop() up to the call of wss.close *)
HubStop ==
  /\ hstop.pc # "closing"
  /\ hstop.n < MaxHubStops
  /\ LET does == [x \in {"clearInterval", "closeClients", "wss.close"} |->
                    IF x = "clearInterval" THEN srv.pingInterval ELSE srv.wss]
         tracked == {c \in ConnIds : clients[c] # <<>>}
     IN /\ hstop' = [pc |-> IF srv.wss THEN "closing" ELSE "returned",
                     trace |-> SelectSeq(StopOrder, LAMBDA x : does[x]),
                     pre |-> <<[srv |-> srv, tracked |-> tracked]>>,
                     n |-> hstop.n + 1]
        /\ srv' = [srv EXCEPT !.pingInterval = FALSE]
        /\ conns' = IF srv.wss
                    THEN [c \in ConnIds |->
                            IF c \in tracked
                            THEN [conns[c] EXCEPT !.state = "closed"]
                            ELSE conns[c]]
                    ELSE conns
        /\ clients' = IF srv.wss THEN [c \in ConnIds |-> <<>>] ELSE clients
  /\ UNCHANGED <<hubNow, hubTicks, nHubMsgs>>
  /\ UNCHANGED <<modeVars, distVars, wsVars, lifeVars, extVars>>

(* the callback of wss.close: an error rejects and leaves wss set *)
HubStopDone ==
  /\ hstop.pc = "closing"
  /\ \E ok \in BOOLEAN :
       /\ ~ok => CanFailDist
       /\ dfaults' = IF ok THEN dfaults ELSE dfaults + 1
       /\ hstop' = [hstop EXCEPT !.pc = IF ok THEN "returned" ELSE "raised"]
       /\ srv' = [srv EXCEPT !.wss = IF ok THEN FALSE ELSE @]
  /\ UNCHANGED <<mgr, bus, mongoCli, modeStateDocs, ctxDocs, transitionDocs,
                 inbox, disp, pcall, pubLog, received, nInits, nPublish>>
  /\ UNCHANGED <<conns, clients, hubNow, hubTicks, nHubMsgs>>
  /\ UNCHANGED <<modeVars, wsVars, lifeVars, extVars>>

HubNext ==
  \/ HubStart
  \/ \E c \in ConnIds : handleConnection(c)
  \/ \E c \in ConnIds : handleMessage(c)
  \/ \E c \in ConnIds : handleDisconnect(c)
  \/ pingClients
  \/ HubStop
  \/ HubStopDone

(* ======================== transport client ============================= *)
(* WebSocketSyncClient: connect, the socket events, the reconnect timer,   *)
(* disconnect                                                              *)

maxReconnectAttempts == 10

CliInit ==
  /\ cli = [ws |-> "null", url |-> FALSE, reconnectAttempts |-> 0,
            reconnectTimeout |-> FALSE, handleLive |-> FALSE, timers |-> 0,
            others |-> [closing |-> 0, connecting |-> 0, open |-> 0]]
  /\ cliLog = [connects |-> 0, opens |-> 0, disconnects |-> 0,
               sinceOpen |-> 0, delay |-> 0, gaveUp |-> FALSE,
               explicit |-> FALSE]

(* connect(url): returns if this.ws is set, else creates the socket *)
connect(c) ==
  IF c.ws # "null" THEN c ELSE [c EXCEPT !.ws = "connecting", !.url = TRUE]

(* the application calls connect(url) *)
CliConnect ==
  /\ cliLog.connects < MaxCliConnects
  /\ cli' = connect(cli)
  /\ cliLog' = [cliLog EXCEPT !.connects = @ + 1, !.gaveUp = FALSE,
                              !.explicit = FALSE]
  /\ UNCHANGED notCli

(* a reconnect timer fires, the one reconnectTimeout refers to or an       *)
(* earlier one: this.connect(this.url)                                     *)
CliTimer ==
  /\ cli.timers > 0
  /\ \E handle \in BOOLEAN :
       /\ handle => cli.handleLive
       /\ ~handle => cli.timers > (IF cli.handleLive THEN 1 ELSE 0)
       /\ cli' = [connect(cli) EXCEPT
            !.timers = @ - 1,
            !.handleLive = IF handle THEN FALSE ELSE @]
  /\ UNCHANGED <<cliLog, notCli>>

(* the "open" event of a socket the client created, the one this.ws refers *)
(* to or one it no longer refers to: reconnectAttempts = 0                 *)
CliOpen ==
  /\ cliLog.opens < MaxCliOpens
  /\ \E current \in BOOLEAN :
       /\ IF current THEN cli.ws = "connecting" ELSE cli.others.connecting > 0
       /\ cli' = [cli EXCEPT
            !.reconnectAttempts = 0,
            !.ws = IF current THEN "open" ELSE @,
            !.others.connecting = IF current THEN @ ELSE @ - 1,
            !.others.open = IF current THEN @ ELSE @ + 1]
  /\ cliLog' = [cliLog EXCEPT !.opens = @ + 1, !.sinceOpen = 0, !.gaveUp = FALSE]
  /\ UNCHANGED notCli

(* delay = Math.min(1000 * Math.pow(2, this.reconnectAttempts), 30000) *)
ReconnectDelayMut(n) == IF 1000 * 2^(n - 1) < 30000 THEN 1000 * 2^(n - 1) ELSE 30000
ReconnectDelay(n) == IF 1000 * 2^n < 30000 THEN 1000 * 2^n ELSE 30000

(* this.url && this.reconnectAttempts < this.maxReconnectAttempts *)
MayRetryMut(c) == c.url /\ c.reconnectAttempts <= maxReconnectAttempts
MayRetry(c) == c.url /\ c.reconnectAttempts < maxReconnectAttempts

(* the "close" event of a socket the client created: handleDisconnect().   *)
(* this.ws = null drops the reference to the current socket also when the  *)
(* event is that of another socket                                         *)
clientHandleDisconnect ==
  \E from \in {"current", "closing", "connecting", "open"} :
    /\ IF from = "current" THEN cli.ws # "null" ELSE cli.others[from] > 0
    /\ LET retry == MayRetry(cli)
           n == cli.reconnectAttempts + 1
           rest == IF from = "current" THEN cli.others
                   ELSE [cli.others EXCEPT ![from] = @ - 1]
       IN /\ cli' = [cli EXCEPT
               !.ws = "null",
               !.others = IF from # "current" /\ cli.ws # "null"
                          THEN [rest EXCEPT ![cli.ws] = @ + 1]
                          ELSE rest,
               !.reconnectAttempts = IF retry THEN n ELSE @,
               !.reconnectTimeout = IF retry THEN TRUE ELSE @,
               !.handleLive = IF retry THEN TRUE ELSE @,
               !.timers = IF retry THEN @ + 1 ELSE @]
          /\ cliLog' = [cliLog EXCEPT
               !.sinceOpen = IF retry THEN @ + 1 ELSE @,
               !.delay = IF retry THEN ReconnectDelay(n) ELSE @,
               !.gaveUp = ~retry]
  /\ UNCHANGED notCli

(* disconnect(): clearTimeout(reconnectTimeout), ws.close(), ws = null;    *)
(* the socket closed here emits its "close" event later                    *)
disconnect ==
  /\ cliLog.disconnects < MaxCliDisconnects
  /\ cli' = [cli EXCEPT
       !.reconnectTimeout = FALSE,
       !.handleLive = FALSE,
       !.timers = IF cli.reconnectTimeout /\ cli.handleLive THEN @ - 1 ELSE @,
       !.ws = "null",
       !.others.closing = IF cli.ws # "null" THEN @ + 1 ELSE @]
  /\ cliLog' = [cliLog EXCEPT !.disconnects = @ + 1, !.explicit = TRUE]
  /\ UNCHANGED notCli

ClientNext ==
  \/ CliConnect
  \/ CliTimer
  \/ CliOpen
  \/ clientHandleDisconnect
  \/ disconnect

(* ========================= context records ============================= *)
(* the two writers of distributed_context, each one updateOne with upsert  *)
(* on the filter {userId, contextKey}, which the unique index of           *)
(* MONGO_INDEXES.DISTRIBUTED_CONTEXT keeps to one record; version is       *)
(* Date.now() of the publisher                                             *)

CtxData == {"d1", "d2"}
CtxVersions == 1..3

CtxInit ==
  /\ ctxLast = [k \in Users \X Keys |-> <<>>]
  /\ nCtx = 0

(* the store applies (or rejects) the updateOne of publishContextUpdate on *)
(* instance i, or that of syncContextToMongoDB for an event of instance j  *)
ContextWrite ==
  /\ nCtx < MaxCtxWrites
  /\ nCtx' = nCtx + 1
  /\ \E i \in Inst, u \in Users, k \in Keys, d \in CtxData, v \in CtxVersions,
        inbound \in BOOLEAN, ok \in BOOLEAN :
       LET c == [IdlePCall EXCEPT !.kind = "ctx", !.userId = u,
                                  !.contextKey = k, !.data = d, !.version = v]
           docs == IF inbound
                   THEN syncContextToMongoDB(ctxDocs, EventMessage(i, c, 0))
                   ELSE UpsertLocalContext(ctxDocs, i, c)
       IN /\ ctxDocs' = IF ok THEN docs ELSE ctxDocs
          /\ ctxLast' = IF ok
                        THEN [ctxLast EXCEPT ![<<u, k>>] =
                               <<[data |-> d, version |-> v, inbound |-> inbound,
                                  over |-> IF ctxDocs[<<u, k>>] = <<>> THEN 0
                                           ELSE ctxDocs[<<u, k>>][1].version]>>]
                        ELSE ctxLast
  /\ UNCHANGED notCtx

CtxNext == ContextWrite

(* ========================= the store client =========================== *)
(* MongoDBClient of distributed_memory_manager.ts, one step per await.    *)

(* MONGO_INDEXES: the number of indexes of mode_state, mode_transitions,  *)
(* distributed_context, ai_response_sources and sync_events, in the order *)
(* ensureIndexes creates them                                             *)
IndexCount == <<3, 3, 4, 4, 3>>
RECURSIVE SumSeq(_)
SumSeq(s) == IF s = <<>> THEN 0 ELSE s[1] + SumSeq(Tail(s))
TotalIndexes == SumSeq(IndexCount)

IdleSCall == [pc |-> "idle", n |-> 0]

StoInit ==
  /\ sto = [client |-> FALSE, db |-> FALSE, isConnecting |-> FALSE]
  /\ scall = IdleSCall
  /\ serverIndexes = 0
  /\ stoSeen = <<>>
  /\ stoRet = <<>>
  /\ nSto = 0
  /\ sfaults = 0

CanFailSto == sfaults < MaxStoFaults

(* isConnected(): this.client !== null && this.db !== null *)
StoreIsConnected(c) == c.client /\ c.db

(* initialize(config) up to await this.client.connect(); a call on a      *)
(* connected client or during another call returns at once                *)
StoInitialize ==
  /\ nSto < MaxStoCalls
  /\ nSto' = nSto + 1
  /\ IF (sto.client /\ sto.db) \/ sto.isConnecting
     THEN /\ UNCHANGED <<sto, scall>>
          /\ stoRet' = <<[how |-> IF sto.client /\ sto.db THEN "connected"
                                  ELSE "inProgress",
                          isConnected |-> StoreIsConnected(sto)]>>
     ELSE /\ sto' = [sto EXCEPT !.isConnecting = TRUE, !.client = TRUE]
          /\ scall' = [pc |-> "connect", n |-> 0]
          /\ UNCHANGED stoRet
  /\ UNCHANGED <<serverIndexes, stoSeen, sfaults>>
  /\ UNCHANGED notSto

(* catch: client = null, db = null, rethrow; finally isConnecting = false *)
InitializeFailed(c) ==
  [c EXCEPT !.client = FALSE, !.db = FALSE, !.isConnecting = FALSE]

(* await this.client.connect(); this.db = this.client.db(...); then       *)
(* ensureIndexes() runs up to its first createIndex                       *)
StoConnect ==
  /\ scall.pc = "connect"
  /\ \/ /\ sto' = [sto EXCEPT !.db = TRUE]
        /\ scall' = [pc |-> "createIndex", n |-> 1]
        /\ UNCHANGED sfaults
     \/ /\ CanFailSto
        /\ sfaults' = sfaults + 1
        /\ sto' = InitializeFailed(sto)
        /\ scall' = [pc |-> "raised", n |-> 0]
  /\ UNCHANGED <<serverIndexes, stoSeen, stoRet, nSto>>
  /\ UNCHANGED notSto

(* ensureIndexes: one await col.createIndex(...); an index that exists is *)
(* left as it is; an error is logged and rethrown                         *)
StoCreateIndex ==
  /\ scall.pc = "createIndex"
  /\ \/ /\ serverIndexes' = IF scall.n > serverIndexes THEN scall.n
                             ELSE serverIndexes
        /\ IF scall.n = TotalIndexes
           THEN /\ scall' = [scall EXCEPT !.pc = "returned"]
                /\ sto' = [sto EXCEPT !.isConnecting = FALSE]
                /\ stoRet' = <<[how |-> "completed",
                                isConnected |-> StoreIsConnected(sto)]>>
           ELSE /\ scall' = [scall EXCEPT !.n = @ + 1]
                /\ UNCHANGED <<sto, stoRet>>
        /\ UNCHANGED sfaults
     \/ /\ CanFailSto
        /\ sfaults' = sfaults + 1
        /\ sto' = InitializeFailed(sto)
        /\ scall' = [scall EXCEPT !.pc = "raised"]
        /\ UNCHANGED <<serverIndexes, stoRet>>
  /\ UNCHANGED <<stoSeen, nSto>>
  /\ UNCHANGED notSto

(* isConnected() and healthCheck() as getStatus() reads them, at any time *)
StoRead ==
  /\ \E pingOk \in BOOLEAN :
       stoSeen' = <<[connected |-> StoreIsConnected(sto),
                     healthy |-> HealthCheck(sto.db, pingOk) = "true",
                     indexes |-> serverIndexes,
                     during |-> scall.pc]>>
  /\ UNCHANGED <<sto, scall, serverIndexes, stoRet, nSto, sfaults>>
  /\ UNCHANGED notSto

(* close(), called when no initialize is in progress *)
StoClose ==
  /\ nSto < MaxStoCalls
  /\ ~sto.isConnecting
  /\ sto.client
  /\ nSto' = nSto + 1
  /\ sto' = [sto EXCEPT !.client = FALSE, !.db = FALSE]
  /\ scall' = IdleSCall
  /\ UNCHANGED <<serverIndexes, stoSeen, stoRet, sfaults>>
  /\ UNCHANGED notSto

StoNext ==
  \/ StoInitialize
  \/ StoConnect
  \/ StoCreateIndex
  \/ StoRead
  \/ StoClose

(* ========================= response annotation ======================== *)
(* annotateResponseSource and extractResponseSource of src/unnamed/       *)
(* part_001. A string is the sequence of its characters; the marker       *)
(* "<!--SOURCE:", a key, a sourceType word and a number count as one      *)
(* character each.                                                        *)

DQ == "\""
BS == "\\"
SourceOpen == "<!--SOURCE:"
SourceClose == <<"-", "-", ">">>
NumberTokens == {"1700", "0.9"}

StrOver(chars, n) == UNION {[1..k -> chars] : k \in 0..n}

ContentChars == {"H", " ", "-"}
ProviderChars == {"p", "-", ">", DQ}
ModelChars == {"m", BS}
Contents == StrOver(ContentChars, MaxContentLen)
Sources ==
  [sourceType : {<<"local">>, <<"external">>, <<"harmonized">>},
   provider : StrOver(ProviderChars, MaxNameLen),
   model : StrOver(ModelChars, 1),
   confidence : {<<>>, <<"0.9">>},
   timestamp : {"1700"}]

(* JSON.stringify of a string: quotes, with " and \ escaped *)
RECURSIVE EscapeString(_)
EscapeString(str) ==
  IF str = <<>> THEN <<>>
  ELSE (IF Head(str) \in {DQ, BS} THEN <<BS, Head(str)>> ELSE <<Head(str)>>)
       \o EscapeString(Tail(str))

StringifyString(str) == <<DQ>> \o EscapeString(str) \o <<DQ>>

Member(key, jsonValue) == StringifyString(<<key>>) \o <<":">> \o jsonValue

(* JSON.stringify(metadata): a member whose value is undefined is left out *)
StringifyMetadata(metadata) ==
  <<"{">> \o Member("sourceType", StringifyString(metadata.sourceType))
  \o <<",">> \o Member("provider", StringifyString(metadata.provider))
  \o <<",">> \o Member("model", StringifyString(metadata.model))
  \o (IF metadata.confidence = <<>> THEN <<>>
      ELSE <<",">> \o Member("confidence", metadata.confidence))
  \o <<",">> \o Member("timestamp", <<metadata.timestamp>>)
  \o <<"}">>

(* return `<!--SOURCE:${JSON.stringify(metadata)}-->${content}` *)
annotateResponseSourceMut(content, source) ==
  LET metadata == [sourceType |-> source.sourceType,
                   provider |-> source.model,
                   model |-> source.provider,
                   confidence |-> source.confidence,
                   timestamp |-> source.timestamp]
  IN <<SourceOpen>> \o StringifyMetadata(metadata) \o SourceClose \o content
annotateResponseSource(content, source) ==
  LET metadata == [sourceType |-> source.sourceType,
                   provider |-> source.provider,
                   model |-> source.model,
                   confidence |-> source.confidence,
                   timestamp |-> source.timestamp]
  IN <<SourceOpen>> \o StringifyMetadata(metadata) \o SourceClose \o content

(* JSON.parse: <<>> when it throws, <<object>> otherwise; an object is a  *)
(* function from keys to [t |-> type, v |-> characters]                   *)
RECURSIVE ReadString(_, _, _)
ReadString(s, i, acc) ==
  IF i > Len(s) THEN <<>>
  ELSE IF s[i] = DQ THEN <<[value |-> [t |-> "string", v |-> acc], next |-> i + 1]>>
  ELSE IF s[i] = BS
       THEN IF i + 1 > Len(s) THEN <<>>
            ELSE ReadString(s, i + 2, Append(acc, s[i + 1]))
  ELSE ReadString(s, i + 1, Append(acc, s[i]))

ParseValue(s, i) ==
  IF i > Len(s) THEN <<>>
  ELSE IF s[i] = DQ THEN ReadString(s, i + 1, <<>>)
  ELSE IF s[i] \in NumberTokens
       THEN <<[value |-> [t |-> "number", v |-> <<s[i]>>], next |-> i + 1]>>
  ELSE <<>>

RECURSIVE ParseMembers(_, _, _)
ParseMembers(s, i, obj) ==
  LET key == IF i <= Len(s) /\ s[i] = DQ THEN ReadString(s, i + 1, <<>>) ELSE <<>>
  IN IF key = <<>> THEN <<>>
     ELSE IF key[1].next > Len(s) \/ s[key[1].next] # ":" THEN <<>>
     ELSE LET val == ParseValue(s, key[1].next + 1)
          IN IF val = <<>> THEN <<>>
             ELSE LET n == val[1].next
                      obj2 == (key[1].value.v :> val[1].value) @@ obj
                  IN IF n > Len(s) THEN <<>>
                     ELSE IF s[n] = "," THEN ParseMembers(s, n + 1, obj2)
                     ELSE IF s[n] = "}" /\ n = Len(s) THEN <<obj2>>
                     ELSE <<>>

JSONParse(s) ==
  IF Len(s) < 2 \/ s[1] # "{" THEN <<>>
  ELSE IF s = <<"{", "}">> THEN <<[k \in {} |-> <<>>]>>
  ELSE ParseMembers(s, 2, [k \in {} |-> <<>>])

(* String.prototype.trim *)
RECURSIVE TrimStart(_)
TrimStart(str) ==
  IF str # <<>> /\ Head(str) = " " THEN TrimStart(Tail(str)) ELSE str
RECURSIVE TrimEnd(_)
TrimEnd(str) ==
  IF str # <<>> /\ str[Len(str)] = " "
  THEN TrimEnd(SubSeq(str, 1, Len(str) - 1)) ELSE str
Trim(str) == TrimEnd(TrimStart(str))

(* content.match(/<!--SOURCE:(.+?)-->/): the leftmost marker that has a   *)
(* "-->" after at least one character, up to the nearest such "-->"       *)
IsCloseAt(s, j) ==
  j + 2 <= Len(s) /\ SubSeq(s, j, j + 2) = SourceClose
ClosesAfter(s, i) == {j \in (i + 2)..Len(s) : IsCloseAt(s, j)}
MinOf(S) == CHOOSE x \in S : \A y \in S : x <= y
SourceMatch(s) ==
  LET starts == {i \in 1..Len(s) : s[i] = SourceOpen /\ ClosesAfter(s, i) # {}}
  IN IF starts = {} THEN <<>>
     ELSE LET i == MinOf(starts)
              j == MinOf(ClosesAfter(s, i))
          IN <<[from |-> i, to |-> j + 2, group |-> SubSeq(s, i + 1, j - 1)]>>

(* extractResponseSource(content): source is <<>> for null *)
extractResponseSource(content) ==
  LET sourceMatch == SourceMatch(content)
      parsed == IF sourceMatch = <<>> THEN <<>>
                ELSE JSONParse(sourceMatch[1].group)
  IN IF sourceMatch # <<>> /\ parsed # <<>>
     THEN [source |-> parsed,
           cleanContent |->
             Trim(SubSeq(content, 1, sourceMatch[1].from - 1)
                  \o SubSeq(content, sourceMatch[1].to + 1, Len(content)))]
     ELSE [source |-> <<>>, cleanContent |-> content]

AnnInit == ann = [stage |-> "none"]

Annotate ==
  /\ ann.stage = "none"
  /\ \E content \in Contents, source \in Sources :
       ann' = [stage |-> "annotated", content |-> content, source |-> source,
               annotated |-> annotateResponseSource(content, source)]
  /\ UNCHANGED notAnn

Extract ==
  /\ ann.stage = "annotated"
  /\ ann' = [stage |-> "extracted", content |-> ann.content,
             source |-> ann.source, annotated |-> ann.annotated,
             extracted |-> extractResponseSource(ann.annotated)]
  /\ UNCHANGED notAnn

AnnNext ==
  \/ Annotate
  \/ Extract

(* ========================= tool coordinator =========================== *)
(* executeTool and addToHistory of multi_mcp_coordinator.ts. Calls do not *)
(* overlap; the n-th call is made with input n on server 1.               *)

maxHistorySize == 100

(* the rows of mcpServers *)
McpServers == {[id |-> 1, name |-> "srv1"]}

IdleCoCall == [pc |-> "idle", serverId |-> 0, input |-> 0, success |-> FALSE]

CoInit ==
  /\ executionHistory = <<>>
  /\ cocall = IdleCoCall
  /\ coEnded = <<>>
  /\ cofaults = 0

CanFailCo == cofaults < MaxCoFaults

(* executionHistory.push(execution); shift() when longer than the cap *)
addToHistoryMut(log, execution) ==
  LET pushed == Append(log, execution)
  IN IF Len(pushed) >= maxHistorySize THEN Tail(pushed) ELSE pushed
addToHistory(log, execution) ==
  LET pushed == Append(log, execution)
  IN IF Len(pushed) > maxHistorySize THEN Tail(pushed) ELSE pushed

(* executeTool(serverId, toolName, input) up to the await in the try *)
CoExecuteTool ==
  /\ cocall.pc \in {"idle", "returned", "raised"}
  /\ Len(coEnded) < MaxCoCalls
  /\ cocall' = [pc |-> "callTool", serverId |-> 1,
                input |-> Len(coEnded) + 1, success |-> FALSE]
  /\ UNCHANGED <<executionHistory, coEnded, cofaults>>
  /\ UNCHANGED notCo

(* try { getClient; callTool; success = true } catch { success = false } *)
CoCallTool ==
  /\ cocall.pc = "callTool"
  /\ \/ /\ cocall' = [cocall EXCEPT !.pc = "selectServers", !.success = TRUE]
        /\ UNCHANGED cofaults
     \/ /\ CanFailCo
        /\ cofaults' = cofaults + 1
        /\ cocall' = [cocall EXCEPT !.pc = "selectServers", !.success = FALSE]
  /\ UNCHANGED <<executionHistory, coEnded>>
  /\ UNCHANGED notCo

(* server?.name || `Server ${serverId}` *)
ServerName(servers, serverId) ==
  IF \E r \in servers : r.id = serverId
  THEN (CHOOSE r \in servers : r.id = serverId).name
  ELSE "Server"

(* const servers = await db.select().from(mcpServers), outside the try;   *)
(* then addToHistory(execution) and return                                *)
CoSelectServers ==
  /\ cocall.pc = "selectServers"
  /\ \/ /\ executionHistory' =
             addToHistory(executionHistory,
                          [serverId |-> cocall.serverId,
                           serverName |-> ServerName(McpServers, cocall.serverId),
                           input |-> cocall.input,
                           success |-> cocall.success])
        /\ cocall' = [cocall EXCEPT !.pc = "returned"]
        /\ coEnded' = Append(coEnded, [input |-> cocall.input, returned |-> TRUE,
                                       success |-> cocall.success])
        /\ UNCHANGED cofaults
     \/ /\ CanFailCo
        /\ cofaults' = cofaults + 1
        /\ cocall' = [cocall EXCEPT !.pc = "raised"]
        /\ coEnded' = Append(coEnded, [input |-> cocall.input, returned |-> FALSE,
                                       success |-> cocall.success])
        /\ UNCHANGED executionHistory
  /\ UNCHANGED notCo

CoNext ==
  \/ CoExecuteTool
  \/ CoCallTool
  \/ CoSelectServers

DistNext ==
  \/ \E i \in Inst : Initialize(i)
  \/ \E i \in Inst : Shutdown(i)
  \/ \E i \in Inst, t \in EventTypes : On(i, t)
  \/ \E i \in Publishers : publishModeChange(i)
  \/ \E i \in Publishers : publishContextUpdate(i)
  \/ \E i \in Inst : BusPublishDone(i)
  \/ \E i \in Inst : StoreWriteDone(i)
  \/ \E i \in Inst : Receive(i)
  \/ \E i \in Inst : InvokeHandler(i)
  \/ \E i \in Inst : SyncDone(i)

DispatchNext ==
  \/ \E i \in DispatchInst : BusInitialize(i)
  \/ \E i \in DispatchInst, t \in EventTypes : On(i, t)
  \/ \E i \in DispatchInst, j \in Inst : Deliver(i, j)
  \/ \E i \in DispatchInst : Receive(i)
  \/ \E i \in DispatchInst : InvokeHandler(i)
  \/ \E e \in WsEndpoints, t \in WsTypes : WsOn(e, t)
  \/ WsServerStart
  \/ WsClientConnect
  \/ \E e \in WsEndpoints : WsHandleMessage(e)
  \/ \E e \in WsEndpoints : WsInvoke(e)

Init ==
  /\ ModeInit /\ DistInit /\ WsInit /\ LifeInit /\ HubInit
  /\ CliInit /\ CtxInit /\ StoInit /\ AnnInit /\ CoInit
  /\ noverlaps = 0

SpecMode == Init /\ [][ModeNext]_vars

(* the mode handlers with mode:switch-mode invocations that overlap: the  *)
(* handler awaits the database between its steps and takes no lock        *)
BeginOverlappingSwitchMode(p) ==
  /\ noverlaps < MaxOverlaps
  /\ \E q \in Procs : q # p /\ call[q].pc \notin {"idle", "returned", "raised"}
  /\ call[p].pc = "idle"
  /\ ncalls < MaxCalls
  /\ ncalls' = ncalls + 1
  /\ noverlaps' = noverlaps + 1
  /\ \E t \in Modes :
       call' = [call EXCEPT ![p] =
         [IdleCall EXCEPT !.pc = "ensureSelect", !.op = "switchMode",
                          !.target = t, !.startTime = now,
                          !.preHistory = history, !.preRows = modeRows]]
  /\ UNCHANGED <<modeRows, capRows, history, now, faults>>
  /\ UNCHANGED <<distVars, wsVars, lifeVars, hubVars, cliVars, ctxVars,
                 stoVars, annVars, coVars>>

(* only mode:switch-mode is invoked *)
ModeConcNext ==
  \/ Tick
  \/ \E p \in SeqProcs : BeginSwitchMode(p)
  \/ \E p \in Procs : BeginOverlappingSwitchMode(p)
  \/ \E p \in Procs : EnsureSelect(p)
  \/ \E p \in Procs : EnsureInsertMode(p)
  \/ \E p \in Procs : EnsureInsertCap(p)
  \/ \E p \in Procs : ReadCurrent(p)
  \/ \E p \in Procs : Deactivate(p)
  \/ \E p \in Procs : Activate(p)
  \/ \E p \in Procs : InsertHistory(p)
  \/ \E p \in Procs : ReadBack(p)
  \/ \E p \in Procs : Catch(p)
  \/ \E p \in Procs : Finish(p)

SpecModeConc == Init /\ [][ModeConcNext]_vars

SpecDist == Init /\ [][DistNext]_vars

(* the instances with the handlers the orchestrator registers and none of *)
(* the application: one publishes, all receive                            *)
RelayNext ==
  \/ \E i \in Inst : Initialize(i)
  \/ \E i \in Inst : Shutdown(i)
  \/ \E i \in Publishers : publishModeChange(i)
  \/ \E i \in Publishers : publishContextUpdate(i)
  \/ \E i \in Inst : BusPublishDone(i)
  \/ \E i \in Inst : StoreWriteDone(i)
  \/ \E i \in Inst : Receive(i)
  \/ \E i \in Inst : InvokeHandler(i)
  \/ \E i \in Inst : SyncDone(i)

(* the event loop runs every queued message callback and every awaited    *)
(* store update settles                                                   *)
SpecRelay ==
  /\ Init /\ [][RelayNext]_vars
  /\ \A i \in Inst :
       /\ WF_vars(Receive(i))
       /\ WF_vars(InvokeHandler(i))
       /\ WF_vars(SyncDone(i))

SpecDispatch == Init /\ [][DispatchNext]_vars

(* initialize and shutdown cycles of one instance that receives the       *)
(* events of another process                                              *)
CycleNext ==
  \/ \E i \in DispatchInst : Initialize(i)
  \/ \E i \in DispatchInst : Shutdown(i)
  \/ \E i \in DispatchInst, j \in Inst : Deliver(i, j)
  \/ \E i \in DispatchInst : Receive(i)
  \/ \E i \in DispatchInst : InvokeHandler(i)
  \/ \E i \in DispatchInst : SyncDone(i)

SpecCycle == Init /\ [][CycleNext]_vars

SpecLife == Init /\ [][LifeNext]_vars

SpecHub == Init /\ [][HubNext]_vars

SpecCtx == Init /\ [][CtxNext]_vars

SpecStore == Init /\ [][StoNext]_vars

SpecAnnotate == Init /\ [][AnnNext]_vars

SpecCoordinator == Init /\ [][CoNext]_vars

(* timers fire and the events of a socket are delivered *)
SpecClient ==
  Init /\ [][ClientNext]_vars /\ WF_vars(CliTimer) /\ WF_vars(clientHandleDisconnect)

(* ------------------------- claims on the mode handlers ----------------- *)

SwitchCalls == {p \in Procs : call[p].op = "switchMode"}

(* C1: a switchMode(target) call that read current # target as the only    *)
(* active mode and returned without error returns the target's status with *)
(* isActive true, leaves exactly the target active in the table, and       *)
(* returns the record {fromMode: current, toMode: target, success: true,   *)
(* transitionDuration >= 0}, which is the record appended to the history.  *)
C1_SwitchSucceeds ==
  \A p \in SwitchCalls : \A cur \in Modes :
    (/\ call[p].pc = "returned"
     /\ call[p].preActive = {cur}
     /\ cur # call[p].target)
    => /\ call[p].result.mode.mode = call[p].target
       /\ call[p].result.mode.isActive
       /\ ActiveModes = {call[p].target}
       /\ call[p].result.transition.fromMode = cur
       /\ call[p].result.transition.toMode = call[p].target
       /\ call[p].result.transition.success
       /\ call[p].result.transition.transitionDuration >= 0
       /\ history = Append(call[p].preHistory, call[p].result.transition)

C1_Witness ==
  \E p \in SwitchCalls :
    /\ call[p].pc = "returned"
    /\ call[p].preActive = {"didactic"}
    /\ call[p].target = "parallel"
    /\ call[p].result.transition.transitionDuration > 0

C3_FailureAlwaysRecorded ==
  \A p \in SwitchCalls :
    call[p].pc = "raised"
    => /\ Len(history) > Len(call[p].preHistory)
       /\ history[Len(history)].success = FALSE
       /\ history[Len(history)].toMode = call[p].target

(* C4: with handler invocations that do not overlap, and database errors   *)
(* possible at every step, at most one mode row is marked active.          *)
C4_AtMostOneActive == NumActive <= 1

C4_Witness ==
  /\ faults > 0
  /\ ActiveModes = {"parallel"}
  /\ Len(history) >= 2
  /\ \E p \in Procs : call[p].pc = "returned" /\ call[p].op = "updateConfiguration"

(* --------------------- claims on the distributed memory ---------------- *)

HoldsEvent(i, e) == disp[i].phase # "idle" /\ disp[i].event[1].eventId = e
InFlight(i, e) == HoldsEvent(i, e) /\ disp[i].phase \in {"handlers", "awaitSync"}

CountIn(s, x) == Cardinality({k \in DOMAIN s : s[k] = x})

(* how often event e is queued at, being dispatched by, or done with at i *)
Occurrences(i, e) ==
  CountIn([k \in DOMAIN inbox[i] |-> inbox[i][k].eventId], e)
  + CountIn(received[i], e)
  + (IF InFlight(i, e) THEN 1 ELSE 0)

(* the dispatch ended after invoking each of the n handlers once, in order *)
AllInvoked(inv, n, handlers) ==
  /\ Len(inv) = n
  /\ n <= Len(handlers)
  /\ \A k \in 1..n : inv[k].h = handlers[k]
  /\ \A h \in {handlers[k] : k \in 1..n} :
       Cardinality({k \in DOMAIN inv : inv[k].h = h}) = 1

C6_ContextReachesPeer ==
  \A e \in DOMAIN pubLog :
    pubLog[e].eventType = "context:updated"
    => \A j \in Inst :
         /\ Occurrences(j, e) <= 1
         /\ j \in pubLog[e].to => Occurrences(j, e) = 1
         /\ (HoldsEvent(j, e) /\ j = pubLog[e].inst)
            => disp[j].phase = "dropped" /\ disp[j].inv = <<>>
         /\ (HoldsEvent(j, e) /\ j # pubLog[e].inst)
            => /\ \A k \in DOMAIN disp[j].inv :
                    LET r == disp[j].inv[k] IN
                    /\ r.key = pubLog[e].contextKey
                    /\ r.from = InstanceId[pubLog[e].inst]
                    /\ (r.h.kind = "mgr" /\ r.mongoUp) => r.seq[1] = "store"
                    /\ (r.h.kind = "mgr" /\ r.done /\ r.storeOk)
                       => ctxDocs[<<"u1", r.key>>] # <<>>
               /\ disp[j].phase = "done"
                  => AllInvoked(disp[j].inv, disp[j].count,
                                bus[j].handlers["context:updated"])

C6_Witness ==
  /\ Len(pubLog) = 1
  /\ pubLog[1].inst = "A"
  /\ pubLog[1].contextKey = "k1"
  /\ pubLog[1].to = {"A", "B"}
  /\ received["A"] = <<1>>
  /\ disp["A"].phase = "dropped"
  /\ received["B"] = <<1>>
  /\ disp["B"].phase = "done"
  /\ Len(disp["B"].inv) = 2
  /\ \E k \in 1..2 : /\ disp["B"].inv[k].h.kind = "mgr"
                     /\ disp["B"].inv[k].storeOk
  /\ ctxDocs[<<"u1", "k1">>] # <<>>
  /\ ctxDocs[<<"u1", "k1">>][1].lastModifiedBy = InstanceId["A"]

WsPhases == {"idle", "handlers", "done", "returned", "parseError"}
BusPhases == {"idle", "handlers", "awaitSync", "done", "dropped"}

(* C7: in the dispatch of one inbound message by the bus client, the       *)
(* transport server or the transport client, a handler that throws does    *)
(* not keep the other handlers of the message type from being invoked, the *)
(* dispatch ends without raising, and no message delivered to the          *)
(* dispatcher is lost: each is queued, being dispatched or dispatched.     *)
C7_HandlerIsolation ==
  /\ \A i \in Inst :
       /\ disp[i].phase \in BusPhases
       /\ disp[i].phase = "done"
          => AllInvoked(disp[i].inv, disp[i].count,
                        bus[i].handlers[disp[i].event[1].eventType])
       /\ \A e \in DOMAIN pubLog : i \in pubLog[e].to => Occurrences(i, e) = 1
  /\ \A e \in WsEndpoints :
       /\ wsDisp[e].phase \in WsPhases
       /\ wsDisp[e].phase = "done"
          => AllInvoked(wsDisp[e].inv, wsDisp[e].count,
                        wsHandlers[e][wsDisp[e].type])
       /\ wsDisp[e].phase \in {"returned", "parseError"} => wsDisp[e].inv = <<>>

C7_Witness ==
  /\ disp["A"].phase = "done"
  /\ Len(disp["A"].inv) = 2
  /\ disp["A"].inv[1].threw
  /\ wsDisp["client"].phase = "done"
  /\ Len(wsDisp["client"].inv) = 2
  /\ wsDisp["client"].inv[1].threw
  /\ nWsMsgs["server"] = 2
  /\ wsThrows["server"] = 1
  /\ wsDisp["server"].phase = "done"
  /\ Len(wsDisp["server"].inv) = 2
  /\ ~wsDisp["server"].inv[1].threw
  /\ ~wsDisp["server"].inv[2].threw

(* the sinks of `order` that were connected when the call was entered *)
ConnectedSinks(c, order) ==
  SelectSeq(order, LAMBDA s : CASE s = "bus" -> c.busUp
                                [] s = "store" -> c.mongoUp
                                [] OTHER -> c.wsUp)

C9_SinkFailureTolerated ==
  \A i \in Inst :
    pcall[i].pc \in {"returned", "raised"}
    => /\ pcall[i].pc = "returned"
       /\ pcall[i].sinks = ConnectedSinks(pcall[i], SinksOf(pcall[i].kind))

WithSettings(c) ==
  /\ c.enableMongoDB => c.mongodb
  /\ c.enableRedis => c.redis
  /\ c.enableWebSocket => c.websocket

C12_SecondInitializeNoOp ==
  (lcall.op = "initialize" /\ lcall.pre[1].mgr.initialized)
  => /\ lcall.pc = "returned"
     /\ lcall.trace = <<>>
     /\ mgr["A"] = lcall.pre[1].mgr
     /\ bus["A"] = lcall.pre[1].bus
     /\ mongoCli["A"] = lcall.pre[1].mongo
     /\ srv = lcall.pre[1].srv

C12_Witness ==
  /\ lcall.op = "initialize"
  /\ lcall.pc = "returned"
  /\ lcall.pre[1].mgr.initialized
  /\ mgr["A"].config[1].enableRedis
  /\ mgr["A"].config[1].enableWebSocket
  /\ ~lcall.config[1].enableRedis
  /\ lcall.config[1].enableMongoDB
  /\ ~MongoIsConnected("A")
  /\ srv.handlers = 1

(* C13: shutdown stops the transport server, closes the bus and closes the *)
(* store in this order, each if it is up when the call is entered; when    *)
(* it has returned, initialized is false and none of the three is up; an   *)
(* initialize that follows attempts the connection of every subsystem its  *)
(* config enables and carries the settings of.                             *)
C13_ShutdownOrder ==
  LET pre == lcall.pre[1]
      wasUp == [x \in {"ws.stop", "bus.close", "store.close"} |->
                  CASE x = "ws.stop" -> pre.mgr.wsServer
                    [] x = "bus.close" ->
                         pre.bus.publisher /\ pre.bus.subscriber /\ pre.bus.open
                    [] OTHER -> pre.mongo.client /\ pre.mongo.db]
      expected == SelectSeq(<<"ws.stop", "bus.close", "store.close">>,
                            LAMBDA x : wasUp[x])
      connects == SelectSeq(<<"mongo.connect", "redis.connect", "ws.start">>,
                    LAMBDA x : CASE x = "mongo.connect" -> lcall.config[1].enableMongoDB
                                 [] x = "redis.connect" -> lcall.config[1].enableRedis
                                 [] OTHER -> lcall.config[1].enableWebSocket)
  IN /\ lcall.op = "shutdown"
        => /\ Len(lcall.trace) <= Len(expected)
           /\ lcall.trace = SubSeq(expected, 1, Len(lcall.trace))
           /\ lcall.pc = "returned"
              => /\ lcall.trace = expected
                 /\ ~mgr["A"].initialized
                 /\ ~mgr["A"].wsServer
                 /\ ~srv.wss /\ ~srv.pingInterval
                 /\ ~BusIsConnected("A")
                 /\ ~MongoIsConnected("A")
     /\ (lcall.op = "initialize" /\ lcall.pc = "returned"
         /\ ~pre.mgr.initialized /\ ~pre.bus.publisher /\ ~pre.mongo.client
         /\ WithSettings(lcall.config[1]))
        => lcall.trace = connects

C13_Witness ==
  /\ lcall.op = "shutdown"
  /\ lcall.pc = "returned"
  /\ lcall.pre[1].mgr.initialized
  /\ lcall.trace = <<"ws.stop", "bus.close", "store.close">>

(* C14: the isFullyOperational flag of a status returned by getStatus is   *)
(* true exactly when every subsystem the stored config enables is up: the  *)
(* store and the bus connected with a health round-trip that succeeded,    *)
(* the transport server listening.                                         *)
C14_FullyOperationalIffAllUp ==
  (lcall.op = "getStatus" /\ lcall.pc = "returned")
  => LET st == lcall.status[1]
         m == mgr["A"]
     IN st.value.isFullyOperational
        <=> /\ Enabled(m, "enableMongoDB") => MongoIsConnected("A") /\ st.mongoPing
            /\ Enabled(m, "enableRedis") => BusIsConnected("A") /\ st.redisPing
            /\ Enabled(m, "enableWebSocket") => srv.wss

(* C15: getStatus never raises, and healthCheck of the store and of the    *)
(* bus never raises in any state; a health round-trip that fails, or a     *)
(* client that is not connected, gives healthCheck = false and healthy =   *)
(* false in the status object.                                             *)
C15_StatusNeverRaises ==
  /\ \A p \in BOOLEAN :
       /\ HealthCheck(mongoCli["A"].db, p) \in {"true", "false"}
       /\ HealthCheck(bus["A"].publisher, p) \in {"true", "false"}
       /\ ~p => /\ HealthCheck(mongoCli["A"].db, p) = "false"
                /\ HealthCheck(bus["A"].publisher, p) = "false"
  /\ lcall.op = "getStatus"
     => LET st == lcall.status[1] IN
        /\ lcall.pc = "returned"
        /\ (~st.mongoPing \/ ~MongoIsConnected("A")) => ~st.value.mongodb.healthy
        /\ (~st.redisPing \/ ~BusIsConnected("A")) => ~st.value.redis.healthy

(* getStatus after an initialize that raised at the bus, with the store    *)
(* connected and its ping failing                                          *)
C15_Witness ==
  /\ lcall.op = "getStatus"
  /\ lcall.pc = "returned"
  /\ dfaults = 1
  /\ ~mgr["A"].initialized
  /\ MongoIsConnected("A")
  /\ ~lcall.status[1].mongoPing
  /\ lcall.status[1].value.mongodb.enabled
  /\ lcall.status[1].value.redis.enabled
  /\ ~lcall.status[1].value.mongodb.healthy
  /\ ~lcall.status[1].value.isFullyOperational

(* C16: when the server has handled a state-request of an open connection *)
(* that identified itself as user u, with the store connected, that        *)
(* connection has been sent a state-response for u; a state-response for   *)
(* u is only ever sent to a connection of u, and only while the store is   *)
(* connected.                                                              *)
C16_StateResponseToUser ==
  \A c \in ConnIds :
    /\ (conns[c].state = "open" /\ conns[c].last # <<>>
        /\ conns[c].last[1].type = "state-request"
        /\ conns[c].last[1].userId # ""
        /\ conns[c].last[1].userId = conns[c].user
        /\ conns[c].last[1].storeUp)
       => \E k \in DOMAIN conns[c].got :
            /\ conns[c].got[k].type = "state-response"
            /\ conns[c].got[k].userId = conns[c].user
    /\ \A k \in DOMAIN conns[c].got :
         conns[c].got[k].type = "state-response"
         => conns[c].got[k].userId = conns[c].user

(* C17: after a heartbeat pass, every connection that had identified       *)
(* itself and had sent no ping for more than 90 s is closed and out of     *)
(* the registry and was sent no ping in the pass, and every other          *)
(* identified connection that is still open was sent a ping in the pass.   *)
C17_HeartbeatPass ==
  hubTicks # <<>>
  => LET t == hubTicks[1]
         pinged(c) == \E k \in DOMAIN conns[c].got :
                        conns[c].got[k] = [type |-> "ping", userId |-> "", at |-> t.at]
     IN /\ \A c \in t.quiet :
             conns[c].state = "closed" /\ clients[c] = <<>> /\ ~pinged(c)
        /\ \A c \in t.live : conns[c].state = "open" => pinged(c)

(* C18: when the server has handled a pong of an open connection that      *)
(* identified itself, the registry entry of the connection has lastPing    *)
(* equal to the time of the pong.                                          *)
C18_PongRefreshesLastPing ==
  \A c \in ConnIds :
    (conns[c].state = "open" /\ conns[c].user # "" /\ conns[c].last # <<>>
     /\ conns[c].last[1].type = "pong")
    => /\ clients[c] # <<>>
       /\ clients[c][1].lastPing = conns[c].last[1].at

(* C19: an open connection whose messages carried a non-empty userId has   *)
(* a registry entry with the userId of the first such message; a closed    *)
(* connection has none.                                                    *)
C19_FirstMessageRegisters ==
  \A c \in ConnIds :
    /\ (conns[c].state = "open" /\ conns[c].user # "")
       => clients[c] # <<>> /\ clients[c][1].userId = conns[c].user
    /\ conns[c].state = "closed" => clients[c] = <<>>

C21_ReconnectDelay ==
  cliLog.sinceOpen >= 1
  => /\ cliLog.sinceOpen <= 10
     /\ cliLog.delay = <<2000, 4000, 8000, 16000, 30000,
                         30000, 30000, 30000, 30000, 30000>>[cliLog.sinceOpen]

C21_Witness ==
  /\ cliLog.opens = 1
  /\ cliLog.sinceOpen = 5
  /\ cliLog.delay = 30000
  /\ cli.timers > 0

(* C22: the client schedules at most 10 reconnects without a successful    *)
(* open in between; a close that finds the counter at 10 schedules         *)
(* nothing; an open sets the counter to 0; and when opens have ceased the  *)
(* client is eventually without a pending reconnect for good.              *)
C22_ReconnectGivesUp ==
  /\ [](/\ cliLog.sinceOpen <= 10
        /\ cli.reconnectAttempts = cliLog.sinceOpen
        /\ cliLog.gaveUp => cli.reconnectAttempts = 10)
  /\ [][/\ cli.reconnectAttempts = 10 => cli'.timers <= cli.timers
        /\ cliLog'.opens > cliLog.opens => cli'.reconnectAttempts = 0]_vars
  /\ <>[](cli.timers = 0)

C22_Witness ==
  /\ cliLog.gaveUp
  /\ cliLog.opens = 1
  /\ cli.reconnectAttempts = 10
  /\ cli.timers = 0
  /\ cli.ws = "null"

(* C23: whenever a step writes the ModeState record of a (userId,          *)
(* instanceId), the syncVersion of the record written is an integer, and   *)
(* it is greater than the syncVersion the record had before, if there was  *)
(* one.                                                                    *)
C23_SyncVersionIncreases ==
  [][\A k \in DOMAIN modeStateDocs :
       modeStateDocs'[k] # modeStateDocs[k]
       => /\ modeStateDocs'[k] # <<>>
          /\ modeStateDocs'[k][1].syncVersion.isInt
          /\ modeStateDocs[k] # <<>>
             => modeStateDocs'[k][1].syncVersion.n
                  > modeStateDocs[k][1].syncVersion.n]_vars

(* C24: for every (userId, contextKey) the store holds no record before    *)
(* the first write it applied and exactly one afterwards, whose data and   *)
(* version are those of the write applied last, local or inbound,          *)
(* whatever version the record had before.                                 *)
C24_LastWriteWins ==
  \A key \in Users \X Keys :
    IF ctxLast[key] = <<>>
    THEN ctxDocs[key] = <<>>
    ELSE /\ Len(ctxDocs[key]) = 1
         /\ ctxDocs[key][1].userId = key[1]
         /\ ctxDocs[key][1].contextKey = key[2]
         /\ ctxDocs[key][1].data = ctxLast[key][1].data
         /\ ctxDocs[key][1].version = ctxLast[key][1].version

(* an inbound write with a lower version and other data replaced the       *)
(* record of a local write                                                 *)
C24_Witness ==
  \E key \in Users \X Keys :
    /\ ctxLast[key] # <<>>
    /\ ctxLast[key][1].inbound
    /\ ctxLast[key][1].version < ctxLast[key][1].over
    /\ ctxDocs[key][1].createdBy # Undefined
    /\ ctxDocs[key][1].data = "d2"
    /\ nCtx = 3

(* C25: the transition history is append-only: while a call of any mode    *)
(* operation is in progress the history extends the history the call       *)
(* found, and every switchMode call that has ended, with a value or with   *)
(* an error, has appended at least one record.                             *)
IsPrefix(s, t) == Len(s) <= Len(t) /\ SubSeq(t, 1, Len(s)) = s

C25_HistoryAppendOnly ==
  /\ \A p \in Procs :
       call[p].pc # "idle" => IsPrefix(call[p].preHistory, history)
  /\ \A p \in SwitchCalls :
       call[p].pc \in {"returned", "raised"}
       => Len(history) > Len(call[p].preHistory)

(* the three records ensureModesExist writes into an empty table *)
DefaultRows ==
  [k \in 1..Len(ModeOrder) |->
     [mode |-> ModeOrder[k], isActive |-> ModeOrder[k] = "inspired",
      configuration |-> Null]]

EnsurePcs == {"idle", "ensureSelect", "ensureInsertMode", "ensureInsertCap"}

(* the handlers that await ensureModesExist() first *)
EnsuringOps == {"getState", "getModeStatus", "switchMode", "updateConfiguration"}
ModeOps == EnsuringOps \cup {"getTransitionHistory"}

(* a call of one of ops that found the table empty and returned a value    *)
(* left one record per mode, with only inspired active unless it switched  *)
CreatesDefaults(ops) ==
  \A p \in Procs :
    (call[p].op \in ops /\ call[p].preRows = <<>> /\ call[p].pc = "returned")
    => /\ Len(modeRows) = Len(ModeOrder)
       /\ {modeRows[k].mode : k \in DOMAIN modeRows} = Modes
       /\ call[p].op # "switchMode" => ActiveModes = {"inspired"}

UpdateCalls == {p \in Procs : call[p].op = "updateConfiguration"}
ActiveOf(rows) == {rows[k].mode : k \in {j \in DOMAIN rows : rows[j].isActive}}

(* C27: while an updateConfiguration(mode, config) call runs and when it   *)
(* has ended, the transition history is the one it found, every record it  *)
(* found keeps its mode and its active flag, and keeps its configuration   *)
(* unless it is a record of the given mode; on a table that was not empty  *)
(* the set of active modes is the one found. When the call has returned,   *)
(* every record of the given mode has configuration = config, which is the *)
(* configuration of the status returned; on a table with one record per    *)
(* mode the table is the one found with that configuration replaced.       *)
C27_UpdateConfigurationFrame ==
  \A p \in UpdateCalls :
    /\ history = call[p].preHistory
    /\ Len(call[p].preRows) <= Len(modeRows)
    /\ \A k \in DOMAIN call[p].preRows :
         /\ modeRows[k].mode = call[p].preRows[k].mode
         /\ modeRows[k].isActive = call[p].preRows[k].isActive
         /\ modeRows[k].mode # call[p].target
            => modeRows[k].configuration = call[p].preRows[k].configuration
    /\ call[p].preRows # <<>> => ActiveModes = ActiveOf(call[p].preRows)
    /\ call[p].pc = "returned"
       => /\ \E k \in DOMAIN modeRows : modeRows[k].mode = call[p].target
          /\ \A k \in DOMAIN modeRows :
               modeRows[k].mode = call[p].target
               => modeRows[k].configuration = call[p].cfg
          /\ call[p].result.mode.configuration = call[p].cfg
          /\ Len(call[p].preRows) = Len(ModeOrder)
             => modeRows = [call[p].preRows EXCEPT
                              ![CHOOSE k \in DOMAIN modeRows :
                                  modeRows[k].mode = call[p].target].configuration
                                = call[p].cfg]

C27_Witness ==
  \E p \in UpdateCalls :
    /\ call[p].pc = "returned"
    /\ Len(call[p].preRows) = Len(ModeOrder)
    /\ \E k \in DOMAIN modeRows :
         /\ modeRows[k].mode # call[p].target
         /\ modeRows[k].configuration # Null
    /\ \E k \in DOMAIN modeRows :
         /\ modeRows[k].mode = call[p].target
         /\ call[p].preRows[k].configuration # call[p].cfg
    /\ ActiveModes = {"didactic"}
    /\ Len(history) = 1

(* ------------------------- claims on the store client ------------------ *)

(* C28: a status read of the store client, taken at any time, a running   *)
(* initialize included, reports connected or healthy only when all the    *)
(* required indexes exist; and an initialize call that raised has left    *)
(* the client not connected.                                              *)
C28_ConnectedOnlyAfterIndexes ==
  /\ \A k \in DOMAIN stoSeen :
       (stoSeen[k].connected \/ stoSeen[k].healthy)
       => stoSeen[k].indexes = TotalIndexes
  /\ scall.pc = "raised" => ~StoreIsConnected(sto)

(* ------------------------ claims on response annotation ---------------- *)

(* the three fields of an extracted source are those of src *)
SameSource(parsed, src) ==
  /\ parsed # <<>>
  /\ {<<"sourceType">>, <<"provider">>, <<"model">>} \subseteq DOMAIN parsed[1]
  /\ parsed[1][<<"sourceType">>] = [t |-> "string", v |-> src.sourceType]
  /\ parsed[1][<<"provider">>] = [t |-> "string", v |-> src.provider]
  /\ parsed[1][<<"model">>] = [t |-> "string", v |-> src.model]

HasClose(str) == \E j \in 1..Len(str) : IsCloseAt(str, j)

MinNat(a, b) == IF a < b THEN a ELSE b
LastN(s, n) == SubSeq(s, Len(s) - MinNat(n, Len(s)) + 1, Len(s))
InputsOf(s) == [k \in DOMAIN s |-> s[k].input]
ReturnedCalls == SelectSeq(coEnded, LAMBDA e : e.returned)

C31_TwoActiveOnlyByOverlap == NumActive > 1 => noverlaps > 0

C31_Witness ==
  /\ NumActive = 2
  /\ faults = 0
  /\ \A p \in Procs : call[p].op = "switchMode" /\ call[p].pc = "returned"
  /\ call[1].target # call[2].target
  /\ call[1].currentMode = "inspired"
  /\ call[2].currentMode = "inspired"

(* ---------------- further claims on the mode handlers ------------------ *)

(* C32: when a switchMode call that found a table with records has raised *)
(* the set of active modes is the one the call found and is not empty,    *)
(* and the currentMode of a value returned by getState is a mode that a   *)
(* record marks active.                                                   *)
C32_FailedSwitchKeepsActive ==
  /\ \A p \in SwitchCalls :
       (call[p].pc = "raised" /\ call[p].preRows # <<>>)
       => /\ ActiveModes = ActiveOf(call[p].preRows)
          /\ ActiveModes # {}
  /\ \A p \in Procs :
       (call[p].op = "getState" /\ call[p].pc = "returned")
       => call[p].result.currentMode \in ActiveModes

(* the records a call has appended to the history it found *)
AppendedBy(p) == SubSeq(history, Len(call[p].preHistory) + 1, Len(history))

(* C33: a switchMode call appends at most one transition record, and a    *)
(* call that raised to its caller has appended no record with             *)
(* success = true.                                                        *)
C33_OneRecordPerCall ==
  \A p \in SwitchCalls :
    /\ Len(AppendedBy(p)) <= 1
    /\ call[p].pc = "raised"
       => \A k \in DOMAIN AppendedBy(p) : ~AppendedBy(p)[k].success

SuccessfulSwitches == SelectSeq(history, LAMBDA r : r.success)

(* C34: a value returned by getState after a successful switch from X to  *)
(* Y, the last successful one, has currentMode = Y and previousMode = X,  *)
(* whatever failed attempts came after that switch.                       *)
C34_PreviousModeOfLastSwitch ==
  \A p \in Procs :
    (call[p].op = "getState" /\ call[p].pc = "returned"
     /\ SuccessfulSwitches # <<>>)
    => LET last == SuccessfulSwitches[Len(SuccessfulSwitches)]
       IN /\ call[p].result.currentMode = last.toMode
          /\ call[p].result.previousMode = last.fromMode

(* ---------------- further claims on the distributed memory ------------- *)

(* the invocations of the orchestrator's own closures for the event that  *)
(* instance i is dispatching or has dispatched last                       *)
MgrInvocations(i) ==
  {k \in DOMAIN disp[i].inv : disp[i].inv[k].h.kind = "mgr"}

(* C35: whatever initialize and shutdown calls came before, none of them *)
(* failing, the dispatch of one inbound event on an instance runs the     *)
(* orchestrator's closure, with its store upsert and its transport        *)
(* broadcast, at most once.                                               *)
C35_OneUpsertPerEvent ==
  dfaults = 0 => \A i \in Inst : Cardinality(MgrInvocations(i)) <= 1

(* ---------------- further claims on the orchestrator ------------------- *)

(* C36: when an initialize call that found the orchestrator not           *)
(* initialized has returned, every subsystem its config enables is        *)
(* connected, also for a config that enables a subsystem without giving   *)
(* its connection settings; and a status read on an initialized           *)
(* orchestrator whose pings succeed has isFullyOperational true.          *)
C36_EnabledMeansConnected ==
  /\ (lcall.op = "initialize" /\ lcall.pc = "returned"
      /\ ~lcall.pre[1].mgr.initialized)
     => LET config == lcall.config[1]
        IN /\ config.enableMongoDB => MongoIsConnected("A")
           /\ config.enableRedis => BusIsConnected("A")
           /\ config.enableWebSocket => mgr["A"].wsServer
  /\ (lcall.op = "getStatus" /\ lcall.pc = "returned" /\ mgr["A"].initialized
      /\ lcall.status[1].mongoPing /\ lcall.status[1].redisPing)
     => lcall.status[1].value.isFullyOperational

(* C37: whenever initialize of the store client returns without error,    *)
(* the client is connected, also for a call made while another initialize *)
(* call on the client is in progress.                                     *)
C37_ReturnedMeansConnected ==
  \A k \in DOMAIN stoRet : stoRet[k].isConnected

(* C38: from an explicit disconnect() until the next connect(url) of the  *)
(* application, the client schedules no reconnect timer and holds no      *)
(* socket.                                                                *)
C38_ExplicitDisconnectStays ==
  cliLog.explicit => ~cli.reconnectTimeout /\ cli.ws = "null"

(* getDistributedState(userId): the mode_state records find({userId})     *)
(* selects; modeState is the most recently updated of them, or null       *)
ModeStatesOf(u) ==
  {modeStateDocs[k][1] :
     k \in {x \in DOMAIN modeStateDocs : x[1] = u /\ modeStateDocs[x] # <<>>}}

(* C39: when publishModeChange(u, from, to) has returned on an instance   *)
(* whose store was connected on entry and still is, the store holds a     *)
(* mode state record of u whose currentMode is to, for a state-request of *)
(* u to be answered with.                                                 *)
C39_StoredModeReflectsLocalChange ==
  \A i \in Inst :
    (/\ pcall[i].pc = "returned"
     /\ pcall[i].kind = "mode"
     /\ pcall[i].mongoUp
     /\ MongoIsConnected(i))
    => \E d \in ModeStatesOf(pcall[i].userId) : d.currentMode = pcall[i].toMode

(* an instance is handling an event it took from the bus *)
Handling(i) == disp[i].phase \in {"handlers", "awaitSync"}

(* the bus events an instance has been handed: handled, in hand, queued *)
HandedTo(i) ==
  Len(received[i]) + (IF Handling(i) THEN 1 ELSE 0) + Len(inbox[i])

(* C40: the bus log grows only in the bus step of a publishModeChange or  *)
(* publishContextUpdate call, by one event per call, and never in a step  *)
(* that handles an inbound event; an instance is handed each bus event at *)
(* most once; and every event an instance is handed is handled to the     *)
(* end.                                                                   *)
C40_NoRepublish ==
  /\ [][/\ Len(pubLog') # Len(pubLog)
           => \E i \in Inst :
                /\ pcall[i].pc = "awaitBus"
                /\ pcall'[i].pc # "awaitBus"
                /\ Len(pubLog') = Len(pubLog) + 1
                /\ disp' = disp
        /\ disp' # disp => pubLog' = pubLog /\ pcall' = pcall]_vars
  /\ [](\A i \in Inst : HandedTo(i) <= Len(pubLog))
  /\ [](Len(pubLog) <= nPublish)
  /\ \A i \in Inst :
       (inbox[i] # <<>> \/ Handling(i)) ~> (inbox[i] = <<>> /\ ~Handling(i))

(* both instances have handled the one event of the publisher to the end: *)
(* the publisher dropped its own event, the other instance synced it      *)
C40_Witness ==
  /\ Len(pubLog) = 1
  /\ pubLog[1].to = Inst
  /\ pcall["A"].pc = "returned"
  /\ disp["A"].phase = "dropped"
  /\ disp["B"].phase = "done"
  /\ disp["B"].count >= 1
  /\ \A i \in Inst : inbox[i] = <<>> /\ Len(received[i]) = 1

====
